---- MODULE Spec2Model ----
(***************************************************************************)
(* A model of AudioPattern (src/src/audio-pattern.js): the pattern parser, *)
(* the Pattern -> MIDI converter toMidi and the MIDI -> Pattern converter  *)
(* fromMidi, together with the parts of DataBuffer they use.               *)
(*                                                                         *)
(* JavaScript values are encoded as follows.  An object is a record whose  *)
(* fields are its properties, so that ('k' in o) is (k \in DOMAIN o); an   *)
(* argument that was not passed is a field that is absent from the record  *)
(* of arguments.  A MIDI event's data is always a record: string data s is *)
(* the record [string |-> s], so that (typeof data === 'object') is        *)
(* ("string" \notin DOMAIN data).  A value that is not an object carries   *)
(* its typeof in the field of that name.                                   *)
(***************************************************************************)
EXTENDS Integers, Sequences, FiniteSets, TLC

(***************************************************************************)
(* Bounds of the model.                                                    *)
(***************************************************************************)
MaxNotes == 2
MaxEvents == 2
MaxPads == 2

(***************************************************************************)
(* JavaScript helpers.                                                     *)
(***************************************************************************)
Has(obj, key) == key \in DOMAIN obj

Min(a, b) == IF a < b THEN a ELSE b

\* Math.round(n / d) for n >= 0 and d > 0: the nearest integer, halves up.
Round(n, d) == ((2 * n) + d) \div (2 * d)

\* The remainder operator %: the result has the sign of the dividend.
JSRem(a, b) == IF a >= 0 THEN a % b ELSE 0 - ((0 - a) % b)

\* The conversion of a number to an element of a Uint8Array.
ToUint8(v) == v % 256

Ascii ==
  <<
     " ", "!", "\"", "#", "$", "%", "&", "'", "(", ")", "*", "+", ",", "-", ".", "/",
     "0", "1", "2", "3", "4", "5", "6", "7", "8", "9", ":", ";", "<", "=", ">", "?",
     "@", "A", "B", "C", "D", "E", "F", "G", "H", "I", "J", "K", "L", "M", "N", "O",
     "P", "Q", "R", "S", "T", "U", "V", "W", "X", "Y", "Z", "[", "\\", "]", "^", "_"
  >>

\* String.fromCharCode for the code units 32 to 95; other code units are
\* written as an escape, which keeps the conversion injective.
FromCharCode(c) == IF c \in 32..95 THEN Ascii[c - 31] ELSE "\\u" \o ToString(c)

(***************************************************************************)
(* Static members of AudioPattern.                                         *)
(***************************************************************************)
defaultPPQOG == 96

defaultPPQ == 480

defaultMap ==
  ("A1" :> [midiNote |-> 47, pad |-> "A1", bankSwitch |-> 64]) @@
  ("A2" :> [midiNote |-> 48, pad |-> "A2", bankSwitch |-> 64]) @@
  ("A3" :> [midiNote |-> 49, pad |-> "A3", bankSwitch |-> 64]) @@
  ("A4" :> [midiNote |-> 50, pad |-> "A4", bankSwitch |-> 64]) @@
  ("A5" :> [midiNote |-> 51, pad |-> "A5", bankSwitch |-> 64]) @@
  ("A6" :> [midiNote |-> 52, pad |-> "A6", bankSwitch |-> 64]) @@
  ("A7" :> [midiNote |-> 53, pad |-> "A7", bankSwitch |-> 64]) @@
  ("A8" :> [midiNote |-> 54, pad |-> "A8", bankSwitch |-> 64]) @@
  ("A9" :> [midiNote |-> 55, pad |-> "A9", bankSwitch |-> 64]) @@
  ("A10" :> [midiNote |-> 56, pad |-> "A10", bankSwitch |-> 64]) @@
  ("A11" :> [midiNote |-> 57, pad |-> "A11", bankSwitch |-> 64]) @@
  ("A12" :> [midiNote |-> 58, pad |-> "A12", bankSwitch |-> 64]) @@
  ("A13" :> [midiNote |-> 59, pad |-> "A13", bankSwitch |-> 64]) @@
  ("A14" :> [midiNote |-> 60, pad |-> "A14", bankSwitch |-> 64]) @@
  ("A15" :> [midiNote |-> 61, pad |-> "A15", bankSwitch |-> 64]) @@
  ("A16" :> [midiNote |-> 62, pad |-> "A16", bankSwitch |-> 64]) @@
  ("B1" :> [midiNote |-> 63, pad |-> "B1", bankSwitch |-> 64]) @@
  ("B2" :> [midiNote |-> 64, pad |-> "B2", bankSwitch |-> 64]) @@
  ("B3" :> [midiNote |-> 65, pad |-> "B3", bankSwitch |-> 64]) @@
  ("B4" :> [midiNote |-> 66, pad |-> "B4", bankSwitch |-> 64]) @@
  ("B5" :> [midiNote |-> 67, pad |-> "B5", bankSwitch |-> 64]) @@
  ("B6" :> [midiNote |-> 68, pad |-> "B6", bankSwitch |-> 64]) @@
  ("B7" :> [midiNote |-> 69, pad |-> "B7", bankSwitch |-> 64]) @@
  ("B8" :> [midiNote |-> 70, pad |-> "B8", bankSwitch |-> 64]) @@
  ("B9" :> [midiNote |-> 71, pad |-> "B9", bankSwitch |-> 64]) @@
  ("B10" :> [midiNote |-> 72, pad |-> "B10", bankSwitch |-> 64]) @@
  ("B11" :> [midiNote |-> 73, pad |-> "B11", bankSwitch |-> 64]) @@
  ("B12" :> [midiNote |-> 74, pad |-> "B12", bankSwitch |-> 64]) @@
  ("B13" :> [midiNote |-> 75, pad |-> "B13", bankSwitch |-> 64]) @@
  ("B14" :> [midiNote |-> 76, pad |-> "B14", bankSwitch |-> 64]) @@
  ("B15" :> [midiNote |-> 77, pad |-> "B15", bankSwitch |-> 64]) @@
  ("B16" :> [midiNote |-> 78, pad |-> "B16", bankSwitch |-> 64]) @@
  ("C1" :> [midiNote |-> 79, pad |-> "C1", bankSwitch |-> 64]) @@
  ("C2" :> [midiNote |-> 80, pad |-> "C2", bankSwitch |-> 64]) @@
  ("C3" :> [midiNote |-> 81, pad |-> "C3", bankSwitch |-> 64]) @@
  ("C4" :> [midiNote |-> 82, pad |-> "C4", bankSwitch |-> 64]) @@
  ("C5" :> [midiNote |-> 83, pad |-> "C5", bankSwitch |-> 64]) @@
  ("C6" :> [midiNote |-> 84, pad |-> "C6", bankSwitch |-> 64]) @@
  ("C7" :> [midiNote |-> 85, pad |-> "C7", bankSwitch |-> 64]) @@
  ("C8" :> [midiNote |-> 86, pad |-> "C8", bankSwitch |-> 64]) @@
  ("C9" :> [midiNote |-> 87, pad |-> "C9", bankSwitch |-> 64]) @@
  ("C10" :> [midiNote |-> 88, pad |-> "C10", bankSwitch |-> 64]) @@
  ("C11" :> [midiNote |-> 89, pad |-> "C11", bankSwitch |-> 64]) @@
  ("C12" :> [midiNote |-> 90, pad |-> "C12", bankSwitch |-> 64]) @@
  ("C13" :> [midiNote |-> 91, pad |-> "C13", bankSwitch |-> 64]) @@
  ("C14" :> [midiNote |-> 92, pad |-> "C14", bankSwitch |-> 64]) @@
  ("C15" :> [midiNote |-> 93, pad |-> "C15", bankSwitch |-> 64]) @@
  ("C16" :> [midiNote |-> 94, pad |-> "C16", bankSwitch |-> 64]) @@
  ("D1" :> [midiNote |-> 95, pad |-> "D1", bankSwitch |-> 64]) @@
  ("D2" :> [midiNote |-> 96, pad |-> "D2", bankSwitch |-> 64]) @@
  ("D3" :> [midiNote |-> 97, pad |-> "D3", bankSwitch |-> 64]) @@
  ("D4" :> [midiNote |-> 98, pad |-> "D4", bankSwitch |-> 64]) @@
  ("D5" :> [midiNote |-> 99, pad |-> "D5", bankSwitch |-> 64]) @@
  ("D6" :> [midiNote |-> 100, pad |-> "D6", bankSwitch |-> 64]) @@
  ("D7" :> [midiNote |-> 101, pad |-> "D7", bankSwitch |-> 64]) @@
  ("D8" :> [midiNote |-> 102, pad |-> "D8", bankSwitch |-> 64]) @@
  ("D9" :> [midiNote |-> 103, pad |-> "D9", bankSwitch |-> 64]) @@
  ("D10" :> [midiNote |-> 104, pad |-> "D10", bankSwitch |-> 64]) @@
  ("D11" :> [midiNote |-> 105, pad |-> "D11", bankSwitch |-> 64]) @@
  ("D12" :> [midiNote |-> 106, pad |-> "D12", bankSwitch |-> 64]) @@
  ("D13" :> [midiNote |-> 107, pad |-> "D13", bankSwitch |-> 64]) @@
  ("D14" :> [midiNote |-> 108, pad |-> "D14", bankSwitch |-> 64]) @@
  ("D15" :> [midiNote |-> 109, pad |-> "D15", bankSwitch |-> 64]) @@
  ("D16" :> [midiNote |-> 110, pad |-> "D16", bankSwitch |-> 64]) @@
  ("E1" :> [midiNote |-> 111, pad |-> "E1", bankSwitch |-> 64]) @@
  ("E2" :> [midiNote |-> 112, pad |-> "E2", bankSwitch |-> 64]) @@
  ("E3" :> [midiNote |-> 113, pad |-> "E3", bankSwitch |-> 64]) @@
  ("E4" :> [midiNote |-> 114, pad |-> "E4", bankSwitch |-> 64]) @@
  ("E5" :> [midiNote |-> 115, pad |-> "E5", bankSwitch |-> 64]) @@
  ("E6" :> [midiNote |-> 116, pad |-> "E6", bankSwitch |-> 64]) @@
  ("E7" :> [midiNote |-> 117, pad |-> "E7", bankSwitch |-> 64]) @@
  ("E8" :> [midiNote |-> 118, pad |-> "E8", bankSwitch |-> 64]) @@
  ("E9" :> [midiNote |-> 119, pad |-> "E9", bankSwitch |-> 64]) @@
  ("E10" :> [midiNote |-> 120, pad |-> "E10", bankSwitch |-> 64]) @@
  ("E11" :> [midiNote |-> 121, pad |-> "E11", bankSwitch |-> 64]) @@
  ("E12" :> [midiNote |-> 122, pad |-> "E12", bankSwitch |-> 64]) @@
  ("E13" :> [midiNote |-> 123, pad |-> "E13", bankSwitch |-> 64]) @@
  ("E14" :> [midiNote |-> 124, pad |-> "E14", bankSwitch |-> 64]) @@
  ("E15" :> [midiNote |-> 125, pad |-> "E15", bankSwitch |-> 64]) @@
  ("E16" :> [midiNote |-> 126, pad |-> "E16", bankSwitch |-> 64]) @@
  ("F1" :> [midiNote |-> 47, pad |-> "F1", bankSwitch |-> 65]) @@
  ("F2" :> [midiNote |-> 48, pad |-> "F2", bankSwitch |-> 65]) @@
  ("F3" :> [midiNote |-> 49, pad |-> "F3", bankSwitch |-> 65]) @@
  ("F4" :> [midiNote |-> 50, pad |-> "F4", bankSwitch |-> 65]) @@
  ("F5" :> [midiNote |-> 51, pad |-> "F5", bankSwitch |-> 65]) @@
  ("F6" :> [midiNote |-> 52, pad |-> "F6", bankSwitch |-> 65]) @@
  ("F7" :> [midiNote |-> 53, pad |-> "F7", bankSwitch |-> 65]) @@
  ("F8" :> [midiNote |-> 54, pad |-> "F8", bankSwitch |-> 65]) @@
  ("F9" :> [midiNote |-> 55, pad |-> "F9", bankSwitch |-> 65]) @@
  ("F10" :> [midiNote |-> 56, pad |-> "F10", bankSwitch |-> 65]) @@
  ("F11" :> [midiNote |-> 57, pad |-> "F11", bankSwitch |-> 65]) @@
  ("F12" :> [midiNote |-> 58, pad |-> "F12", bankSwitch |-> 65]) @@
  ("F13" :> [midiNote |-> 59, pad |-> "F13", bankSwitch |-> 65]) @@
  ("F14" :> [midiNote |-> 60, pad |-> "F14", bankSwitch |-> 65]) @@
  ("F15" :> [midiNote |-> 61, pad |-> "F15", bankSwitch |-> 65]) @@
  ("F16" :> [midiNote |-> 62, pad |-> "F16", bankSwitch |-> 65]) @@
  ("G1" :> [midiNote |-> 63, pad |-> "G1", bankSwitch |-> 65]) @@
  ("G2" :> [midiNote |-> 64, pad |-> "G2", bankSwitch |-> 65]) @@
  ("G3" :> [midiNote |-> 65, pad |-> "G3", bankSwitch |-> 65]) @@
  ("G4" :> [midiNote |-> 66, pad |-> "G4", bankSwitch |-> 65]) @@
  ("G5" :> [midiNote |-> 67, pad |-> "G5", bankSwitch |-> 65]) @@
  ("G6" :> [midiNote |-> 68, pad |-> "G6", bankSwitch |-> 65]) @@
  ("G7" :> [midiNote |-> 69, pad |-> "G7", bankSwitch |-> 65]) @@
  ("G8" :> [midiNote |-> 70, pad |-> "G8", bankSwitch |-> 65]) @@
  ("G9" :> [midiNote |-> 71, pad |-> "G9", bankSwitch |-> 65]) @@
  ("G10" :> [midiNote |-> 72, pad |-> "G10", bankSwitch |-> 65]) @@
  ("G11" :> [midiNote |-> 73, pad |-> "G11", bankSwitch |-> 65]) @@
  ("G12" :> [midiNote |-> 74, pad |-> "G12", bankSwitch |-> 65]) @@
  ("G13" :> [midiNote |-> 75, pad |-> "G13", bankSwitch |-> 65]) @@
  ("G14" :> [midiNote |-> 76, pad |-> "G14", bankSwitch |-> 65]) @@
  ("G15" :> [midiNote |-> 77, pad |-> "G15", bankSwitch |-> 65]) @@
  ("G16" :> [midiNote |-> 78, pad |-> "G16", bankSwitch |-> 65]) @@
  ("H1" :> [midiNote |-> 79, pad |-> "H1", bankSwitch |-> 65]) @@
  ("H2" :> [midiNote |-> 80, pad |-> "H2", bankSwitch |-> 65]) @@
  ("H3" :> [midiNote |-> 81, pad |-> "H3", bankSwitch |-> 65]) @@
  ("H4" :> [midiNote |-> 82, pad |-> "H4", bankSwitch |-> 65]) @@
  ("H5" :> [midiNote |-> 83, pad |-> "H5", bankSwitch |-> 65]) @@
  ("H6" :> [midiNote |-> 84, pad |-> "H6", bankSwitch |-> 65]) @@
  ("H7" :> [midiNote |-> 85, pad |-> "H7", bankSwitch |-> 65]) @@
  ("H8" :> [midiNote |-> 86, pad |-> "H8", bankSwitch |-> 65]) @@
  ("H9" :> [midiNote |-> 87, pad |-> "H9", bankSwitch |-> 65]) @@
  ("H10" :> [midiNote |-> 88, pad |-> "H10", bankSwitch |-> 65]) @@
  ("H11" :> [midiNote |-> 89, pad |-> "H11", bankSwitch |-> 65]) @@
  ("H12" :> [midiNote |-> 90, pad |-> "H12", bankSwitch |-> 65]) @@
  ("H13" :> [midiNote |-> 91, pad |-> "H13", bankSwitch |-> 65]) @@
  ("H14" :> [midiNote |-> 92, pad |-> "H14", bankSwitch |-> 65]) @@
  ("H15" :> [midiNote |-> 93, pad |-> "H15", bankSwitch |-> 65]) @@
  ("H16" :> [midiNote |-> 94, pad |-> "H16", bankSwitch |-> 65]) @@
  ("I1" :> [midiNote |-> 95, pad |-> "I1", bankSwitch |-> 65]) @@
  ("I2" :> [midiNote |-> 96, pad |-> "I2", bankSwitch |-> 65]) @@
  ("I3" :> [midiNote |-> 97, pad |-> "I3", bankSwitch |-> 65]) @@
  ("I4" :> [midiNote |-> 98, pad |-> "I4", bankSwitch |-> 65]) @@
  ("I5" :> [midiNote |-> 99, pad |-> "I5", bankSwitch |-> 65]) @@
  ("I6" :> [midiNote |-> 100, pad |-> "I6", bankSwitch |-> 65]) @@
  ("I7" :> [midiNote |-> 101, pad |-> "I7", bankSwitch |-> 65]) @@
  ("I8" :> [midiNote |-> 102, pad |-> "I8", bankSwitch |-> 65]) @@
  ("I9" :> [midiNote |-> 103, pad |-> "I9", bankSwitch |-> 65]) @@
  ("I10" :> [midiNote |-> 104, pad |-> "I10", bankSwitch |-> 65]) @@
  ("I11" :> [midiNote |-> 105, pad |-> "I11", bankSwitch |-> 65]) @@
  ("I12" :> [midiNote |-> 106, pad |-> "I12", bankSwitch |-> 65]) @@
  ("I13" :> [midiNote |-> 107, pad |-> "I13", bankSwitch |-> 65]) @@
  ("I14" :> [midiNote |-> 108, pad |-> "I14", bankSwitch |-> 65]) @@
  ("I15" :> [midiNote |-> 109, pad |-> "I15", bankSwitch |-> 65]) @@
  ("I16" :> [midiNote |-> 110, pad |-> "I16", bankSwitch |-> 65]) @@
  ("J1" :> [midiNote |-> 111, pad |-> "J1", bankSwitch |-> 65]) @@
  ("J2" :> [midiNote |-> 112, pad |-> "J2", bankSwitch |-> 65]) @@
  ("J3" :> [midiNote |-> 113, pad |-> "J3", bankSwitch |-> 65]) @@
  ("J4" :> [midiNote |-> 114, pad |-> "J4", bankSwitch |-> 65]) @@
  ("J5" :> [midiNote |-> 115, pad |-> "J5", bankSwitch |-> 65]) @@
  ("J6" :> [midiNote |-> 116, pad |-> "J6", bankSwitch |-> 65]) @@
  ("J7" :> [midiNote |-> 117, pad |-> "J7", bankSwitch |-> 65]) @@
  ("J8" :> [midiNote |-> 118, pad |-> "J8", bankSwitch |-> 65]) @@
  ("J9" :> [midiNote |-> 119, pad |-> "J9", bankSwitch |-> 65]) @@
  ("J10" :> [midiNote |-> 120, pad |-> "J10", bankSwitch |-> 65]) @@
  ("J11" :> [midiNote |-> 121, pad |-> "J11", bankSwitch |-> 65]) @@
  ("J12" :> [midiNote |-> 122, pad |-> "J12", bankSwitch |-> 65]) @@
  ("J13" :> [midiNote |-> 123, pad |-> "J13", bankSwitch |-> 65]) @@
  ("J14" :> [midiNote |-> 124, pad |-> "J14", bankSwitch |-> 65]) @@
  ("J15" :> [midiNote |-> 125, pad |-> "J15", bankSwitch |-> 65]) @@
  ("J16" :> [midiNote |-> 126, pad |-> "J16", bankSwitch |-> 65])

defaultMapOG ==
  ("A1" :> [midiNote |-> 47, pad |-> "A1", bankSwitch |-> 0]) @@
  ("A2" :> [midiNote |-> 48, pad |-> "A2", bankSwitch |-> 0]) @@
  ("A3" :> [midiNote |-> 49, pad |-> "A3", bankSwitch |-> 0]) @@
  ("A4" :> [midiNote |-> 50, pad |-> "A4", bankSwitch |-> 0]) @@
  ("A5" :> [midiNote |-> 51, pad |-> "A5", bankSwitch |-> 0]) @@
  ("A6" :> [midiNote |-> 52, pad |-> "A6", bankSwitch |-> 0]) @@
  ("A7" :> [midiNote |-> 53, pad |-> "A7", bankSwitch |-> 0]) @@
  ("A8" :> [midiNote |-> 54, pad |-> "A8", bankSwitch |-> 0]) @@
  ("A9" :> [midiNote |-> 55, pad |-> "A9", bankSwitch |-> 0]) @@
  ("A10" :> [midiNote |-> 56, pad |-> "A10", bankSwitch |-> 0]) @@
  ("A11" :> [midiNote |-> 57, pad |-> "A11", bankSwitch |-> 0]) @@
  ("A12" :> [midiNote |-> 58, pad |-> "A12", bankSwitch |-> 0]) @@
  ("B1" :> [midiNote |-> 59, pad |-> "B1", bankSwitch |-> 0]) @@
  ("B2" :> [midiNote |-> 60, pad |-> "B2", bankSwitch |-> 0]) @@
  ("B3" :> [midiNote |-> 61, pad |-> "B3", bankSwitch |-> 0]) @@
  ("B4" :> [midiNote |-> 62, pad |-> "B4", bankSwitch |-> 0]) @@
  ("B5" :> [midiNote |-> 63, pad |-> "B5", bankSwitch |-> 0]) @@
  ("B6" :> [midiNote |-> 64, pad |-> "B6", bankSwitch |-> 0]) @@
  ("B7" :> [midiNote |-> 65, pad |-> "B7", bankSwitch |-> 0]) @@
  ("B8" :> [midiNote |-> 66, pad |-> "B8", bankSwitch |-> 0]) @@
  ("B9" :> [midiNote |-> 67, pad |-> "B9", bankSwitch |-> 0]) @@
  ("B10" :> [midiNote |-> 68, pad |-> "B10", bankSwitch |-> 0]) @@
  ("B11" :> [midiNote |-> 69, pad |-> "B11", bankSwitch |-> 0]) @@
  ("B12" :> [midiNote |-> 70, pad |-> "B12", bankSwitch |-> 0]) @@
  ("C1" :> [midiNote |-> 71, pad |-> "C1", bankSwitch |-> 0]) @@
  ("C2" :> [midiNote |-> 72, pad |-> "C2", bankSwitch |-> 0]) @@
  ("C3" :> [midiNote |-> 73, pad |-> "C3", bankSwitch |-> 0]) @@
  ("C4" :> [midiNote |-> 74, pad |-> "C4", bankSwitch |-> 0]) @@
  ("C5" :> [midiNote |-> 75, pad |-> "C5", bankSwitch |-> 0]) @@
  ("C6" :> [midiNote |-> 76, pad |-> "C6", bankSwitch |-> 0]) @@
  ("C7" :> [midiNote |-> 77, pad |-> "C7", bankSwitch |-> 0]) @@
  ("C8" :> [midiNote |-> 78, pad |-> "C8", bankSwitch |-> 0]) @@
  ("C9" :> [midiNote |-> 79, pad |-> "C9", bankSwitch |-> 0]) @@
  ("C10" :> [midiNote |-> 80, pad |-> "C10", bankSwitch |-> 0]) @@
  ("C11" :> [midiNote |-> 81, pad |-> "C11", bankSwitch |-> 0]) @@
  ("C12" :> [midiNote |-> 82, pad |-> "C12", bankSwitch |-> 0]) @@
  ("D1" :> [midiNote |-> 83, pad |-> "D1", bankSwitch |-> 0]) @@
  ("D2" :> [midiNote |-> 84, pad |-> "D2", bankSwitch |-> 0]) @@
  ("D3" :> [midiNote |-> 85, pad |-> "D3", bankSwitch |-> 0]) @@
  ("D4" :> [midiNote |-> 86, pad |-> "D4", bankSwitch |-> 0]) @@
  ("D5" :> [midiNote |-> 87, pad |-> "D5", bankSwitch |-> 0]) @@
  ("D6" :> [midiNote |-> 88, pad |-> "D6", bankSwitch |-> 0]) @@
  ("D7" :> [midiNote |-> 89, pad |-> "D7", bankSwitch |-> 0]) @@
  ("D8" :> [midiNote |-> 90, pad |-> "D8", bankSwitch |-> 0]) @@
  ("D9" :> [midiNote |-> 91, pad |-> "D9", bankSwitch |-> 0]) @@
  ("D10" :> [midiNote |-> 92, pad |-> "D10", bankSwitch |-> 0]) @@
  ("D11" :> [midiNote |-> 93, pad |-> "D11", bankSwitch |-> 0]) @@
  ("D12" :> [midiNote |-> 94, pad |-> "D12", bankSwitch |-> 0]) @@
  ("E1" :> [midiNote |-> 95, pad |-> "E1", bankSwitch |-> 0]) @@
  ("E2" :> [midiNote |-> 96, pad |-> "E2", bankSwitch |-> 0]) @@
  ("E3" :> [midiNote |-> 97, pad |-> "E3", bankSwitch |-> 0]) @@
  ("E4" :> [midiNote |-> 98, pad |-> "E4", bankSwitch |-> 0]) @@
  ("E5" :> [midiNote |-> 99, pad |-> "E5", bankSwitch |-> 0]) @@
  ("E6" :> [midiNote |-> 100, pad |-> "E6", bankSwitch |-> 0]) @@
  ("E7" :> [midiNote |-> 101, pad |-> "E7", bankSwitch |-> 0]) @@
  ("E8" :> [midiNote |-> 102, pad |-> "E8", bankSwitch |-> 0]) @@
  ("E9" :> [midiNote |-> 103, pad |-> "E9", bankSwitch |-> 0]) @@
  ("E10" :> [midiNote |-> 104, pad |-> "E10", bankSwitch |-> 0]) @@
  ("E11" :> [midiNote |-> 105, pad |-> "E11", bankSwitch |-> 0]) @@
  ("E12" :> [midiNote |-> 106, pad |-> "E12", bankSwitch |-> 0]) @@
  ("F1" :> [midiNote |-> 107, pad |-> "F1", bankSwitch |-> 0]) @@
  ("F2" :> [midiNote |-> 108, pad |-> "F2", bankSwitch |-> 0]) @@
  ("F3" :> [midiNote |-> 109, pad |-> "F3", bankSwitch |-> 0]) @@
  ("F4" :> [midiNote |-> 110, pad |-> "F4", bankSwitch |-> 0]) @@
  ("F5" :> [midiNote |-> 111, pad |-> "F5", bankSwitch |-> 0]) @@
  ("F6" :> [midiNote |-> 112, pad |-> "F6", bankSwitch |-> 0]) @@
  ("F7" :> [midiNote |-> 113, pad |-> "F7", bankSwitch |-> 0]) @@
  ("F8" :> [midiNote |-> 114, pad |-> "F8", bankSwitch |-> 0]) @@
  ("F9" :> [midiNote |-> 115, pad |-> "F9", bankSwitch |-> 0]) @@
  ("F10" :> [midiNote |-> 116, pad |-> "F10", bankSwitch |-> 0]) @@
  ("F11" :> [midiNote |-> 117, pad |-> "F11", bankSwitch |-> 0]) @@
  ("F12" :> [midiNote |-> 118, pad |-> "F12", bankSwitch |-> 0]) @@
  ("G1" :> [midiNote |-> 71, pad |-> "G1", bankSwitch |-> 64]) @@
  ("G2" :> [midiNote |-> 72, pad |-> "G2", bankSwitch |-> 64]) @@
  ("G3" :> [midiNote |-> 73, pad |-> "G3", bankSwitch |-> 64]) @@
  ("G4" :> [midiNote |-> 74, pad |-> "G4", bankSwitch |-> 64]) @@
  ("G5" :> [midiNote |-> 75, pad |-> "G5", bankSwitch |-> 64]) @@
  ("G6" :> [midiNote |-> 76, pad |-> "G6", bankSwitch |-> 64]) @@
  ("G7" :> [midiNote |-> 77, pad |-> "G7", bankSwitch |-> 64]) @@
  ("G8" :> [midiNote |-> 78, pad |-> "G8", bankSwitch |-> 64]) @@
  ("G9" :> [midiNote |-> 79, pad |-> "G9", bankSwitch |-> 64]) @@
  ("G10" :> [midiNote |-> 80, pad |-> "G10", bankSwitch |-> 64]) @@
  ("G11" :> [midiNote |-> 81, pad |-> "G11", bankSwitch |-> 64]) @@
  ("G12" :> [midiNote |-> 82, pad |-> "G12", bankSwitch |-> 64]) @@
  ("H1" :> [midiNote |-> 83, pad |-> "H1", bankSwitch |-> 64]) @@
  ("H2" :> [midiNote |-> 84, pad |-> "H2", bankSwitch |-> 64]) @@
  ("H3" :> [midiNote |-> 85, pad |-> "H3", bankSwitch |-> 64]) @@
  ("H4" :> [midiNote |-> 86, pad |-> "H4", bankSwitch |-> 64]) @@
  ("H5" :> [midiNote |-> 87, pad |-> "H5", bankSwitch |-> 64]) @@
  ("H6" :> [midiNote |-> 88, pad |-> "H6", bankSwitch |-> 64]) @@
  ("H7" :> [midiNote |-> 89, pad |-> "H7", bankSwitch |-> 64]) @@
  ("H8" :> [midiNote |-> 90, pad |-> "H8", bankSwitch |-> 64]) @@
  ("H9" :> [midiNote |-> 91, pad |-> "H9", bankSwitch |-> 64]) @@
  ("H10" :> [midiNote |-> 92, pad |-> "H10", bankSwitch |-> 64]) @@
  ("H11" :> [midiNote |-> 93, pad |-> "H11", bankSwitch |-> 64]) @@
  ("H12" :> [midiNote |-> 94, pad |-> "H12", bankSwitch |-> 64]) @@
  ("I1" :> [midiNote |-> 95, pad |-> "I1", bankSwitch |-> 64]) @@
  ("I2" :> [midiNote |-> 96, pad |-> "I2", bankSwitch |-> 64]) @@
  ("I3" :> [midiNote |-> 97, pad |-> "I3", bankSwitch |-> 64]) @@
  ("I4" :> [midiNote |-> 98, pad |-> "I4", bankSwitch |-> 64]) @@
  ("I5" :> [midiNote |-> 99, pad |-> "I5", bankSwitch |-> 64]) @@
  ("I6" :> [midiNote |-> 100, pad |-> "I6", bankSwitch |-> 64]) @@
  ("I7" :> [midiNote |-> 101, pad |-> "I7", bankSwitch |-> 64]) @@
  ("I8" :> [midiNote |-> 102, pad |-> "I8", bankSwitch |-> 64]) @@
  ("I9" :> [midiNote |-> 103, pad |-> "I9", bankSwitch |-> 64]) @@
  ("I10" :> [midiNote |-> 104, pad |-> "I10", bankSwitch |-> 64]) @@
  ("I11" :> [midiNote |-> 105, pad |-> "I11", bankSwitch |-> 64]) @@
  ("I12" :> [midiNote |-> 106, pad |-> "I12", bankSwitch |-> 64]) @@
  ("J1" :> [midiNote |-> 107, pad |-> "J1", bankSwitch |-> 64]) @@
  ("J2" :> [midiNote |-> 108, pad |-> "J2", bankSwitch |-> 64]) @@
  ("J3" :> [midiNote |-> 109, pad |-> "J3", bankSwitch |-> 64]) @@
  ("J4" :> [midiNote |-> 110, pad |-> "J4", bankSwitch |-> 64]) @@
  ("J5" :> [midiNote |-> 111, pad |-> "J5", bankSwitch |-> 64]) @@
  ("J6" :> [midiNote |-> 112, pad |-> "J6", bankSwitch |-> 64]) @@
  ("J7" :> [midiNote |-> 113, pad |-> "J7", bankSwitch |-> 64]) @@
  ("J8" :> [midiNote |-> 114, pad |-> "J8", bankSwitch |-> 64]) @@
  ("J9" :> [midiNote |-> 115, pad |-> "J9", bankSwitch |-> 64]) @@
  ("J10" :> [midiNote |-> 116, pad |-> "J10", bankSwitch |-> 64]) @@
  ("J11" :> [midiNote |-> 117, pad |-> "J11", bankSwitch |-> 64]) @@
  ("J12" :> [midiNote |-> 118, pad |-> "J12", bankSwitch |-> 64])

(***************************************************************************)
(* DataBuffer: reading.  data is the sequence of bytes and offset the      *)
(* number of bytes already read.                                           *)
(***************************************************************************)
remainingBytes(data, offset) == Len(data) - offset

available(data, offset, bytes) == bytes <= remainingBytes(data, offset)

(***************************************************************************)
(* AudioPattern.parse                                                      *)
(***************************************************************************)
\* The sample number with the test of the OG revision for both revisions.
SampleNumberAsOG(midiNote, bankSwitch, padsPerBank, og) ==
  IF bankSwitch = 0 THEN midiNote - 46
  ELSE IF bankSwitch = 64 THEN (midiNote - 46) + (padsPerBank * 5)
  ELSE 160

SampleNumber(midiNote, bankSwitch, padsPerBank, og) ==
  IF og
  THEN IF bankSwitch = 0 THEN midiNote - 46
       ELSE IF bankSwitch = 64 THEN (midiNote - 46) + (padsPerBank * 5)
       ELSE 160
  ELSE IF bankSwitch = 0 \/ bankSwitch = 64 THEN midiNote - 46
       ELSE IF bankSwitch = 1 \/ bankSwitch = 65 THEN (midiNote - 46) + (padsPerBank * 5)
       ELSE 160

PadLabel(sampleNumber, padsPerBank) ==
  LET padNumber == sampleNumber - 1
      bankNumber == padNumber \div padsPerBank
      bankLetter == FromCharCode(65 + bankNumber)
      bankPadNumber == JSRem(padNumber, padsPerBank) + 1
  IN  bankLetter \o ToString(bankPadNumber)

\* One iteration of the loop of parse: the record of 8 bytes at offset.
ParseNote(data, offset, padsPerBank, og) ==
  LET ticks == data[offset + 1]
      midiNote == data[offset + 2]
      bankSwitch == data[offset + 3]
      pitchMode == data[offset + 4]
      velocity == data[offset + 5]
      unknown3 == data[offset + 6]
      length == data[offset + 7] + (256 * data[offset + 8])
      sampleNumber == SampleNumber(midiNote, bankSwitch, padsPerBank, og)
  IN  [ticks |-> ticks,
       midiNote |-> midiNote,
       bankSwitch |-> bankSwitch,
       pitchMode |-> pitchMode,
       velocity |-> velocity,
       unknown3 |-> unknown3,
       length |-> length,
       sampleNumber |-> sampleNumber,
       padLabel |-> PadLabel(sampleNumber, padsPerBank)]

\* The options of parse with their defaults.
ParseOptions(options) ==
  [bytesPerNote |-> IF Has(options, "bytesPerNote") THEN options.bytesPerNote ELSE 8,
   padsPerBank |-> IF Has(options, "padsPerBank") THEN options.padsPerBank ELSE 16,
   og |-> IF Has(options, "og") THEN options.og ELSE FALSE]

\* The loop of parse.  remaining is remainingBytes() at the start of parse,
\* so that (i < totalNotes) is (i * bytesPerNote < remaining - 2 * bytesPerNote)
\* and the loop asks for the least number of iterations i for which that is
\* false.  Each iteration reads 8 bytes; a read past the end of the data
\* raises UnderflowError after the bytes before it have been read one by
\* one, and the notes of the earlier iterations have been pushed.
ParseLoop(data, offset, remaining, opt) ==
  LET wanted == IF remaining - (2 * opt.bytesPerNote) <= 0
                THEN 0
                ELSE ((remaining - (2 * opt.bytesPerNote)) + (opt.bytesPerNote - 1))
                       \div opt.bytesPerNote
      readable == remainingBytes(data, offset) \div 8
      done == Min(wanted, readable)
      notes == [k \in 1..done |->
                  ParseNote(data, offset + (8 * (k - 1)), opt.padsPerBank, opt.og)]
  IN  IF wanted > readable
      THEN [offset |-> Len(data), notes |-> notes, error |-> "UnderflowError"]
      ELSE [offset |-> offset + (8 * done), notes |-> notes, error |-> ""]

\* parse on an instance this: the instance after the call and the error
\* raised, "" when the call returns.
Parse(this, options) ==
  LET opt == ParseOptions(options)
      loop == ParseLoop(this.data, this.offset,
                        remainingBytes(this.data, this.offset), opt)
  IN  IF loop.error # ""
      THEN [this |-> [this EXCEPT !.offset = loop.offset, !.notes = loop.notes],
            error |-> loop.error]
      ELSE IF ~available(this.data, loop.offset, 16)
      THEN [this |-> [this EXCEPT !.offset = Len(this.data), !.notes = loop.notes],
            error |-> "UnderflowError"]
      ELSE LET footer == SubSeq(this.data, loop.offset + 1, loop.offset + 16)
           IN  [this |-> [this EXCEPT !.offset = loop.offset + 16,
                                      !.notes = loop.notes,
                                      !.bars = footer[9],
                                      !.timeSignature = footer[13]],
                error |-> ""]

\* new AudioPattern(input, options)
Construct(input, options) ==
  Parse([data |-> input, offset |-> 0, bars |-> 0, timeSignature |-> 0, notes |-> <<>>],
        options)

(***************************************************************************)
(* DataBuffer: writing.  The buffer of a DataBuffer that is being written  *)
(* is a plain array: writeUInt8 stores its argument as it is, writeUInt16  *)
(* stores two masked bytes.  The bytes of the file are the buffer          *)
(* converted to a Uint8Array.                                              *)
(***************************************************************************)
writeUInt8(buffer, data) == Append(buffer, data)

\* writeUInt16(data, offset, true, true): little-endian.
writeUInt16(buffer, data) == buffer \o <<data % 256, (data \div 256) % 256>>

writeBytes(buffer, data) == buffer \o data

\* new Uint8Array(dataBuffer.buffer)
ToBytes(buffer) == [k \in 1..Len(buffer) |-> ToUint8(buffer[k])]

(***************************************************************************)
(* AudioPattern.fromMidi                                                   *)
(***************************************************************************)
Undefined == "undefined"

maxBars == 64

maxTicksInGap == 255

\* The checks of the arguments with the note map looked at first.
FromMidiArgumentErrorNoteMapFirst(args) ==
  IF ~Has(args, "noteMap")
  THEN "No noteMap provided, please provide a mapping of MIDI notes to pads."
  ELSE IF \/ ~Has(args, "audioMIDI")
          \/ args.audioMIDI.typeof # "object"
          \/ ~Has(args.audioMIDI, "timeDivision")
          \/ ~Has(args.audioMIDI, "chunks")
  THEN "No audioMIDI provided, please provide an AudioMIDI instance."
  ELSE IF ~Has(args, "patternPPQN") \/ args.patternPPQN = 0
  THEN "No patternPPQN provided, please provide a PPQN for the pattern: OG is 96, MKii is 480."
  ELSE ""

\* The three checks of the arguments, in the order of the code: the message
\* of the error raised, "" when the arguments pass.
FromMidiArgumentError(args) ==
  IF \/ ~Has(args, "audioMIDI")
     \/ args.audioMIDI.typeof # "object"
     \/ ~Has(args.audioMIDI, "timeDivision")
     \/ ~Has(args.audioMIDI, "chunks")
  THEN "No audioMIDI provided, please provide an AudioMIDI instance."
  ELSE IF ~Has(args, "noteMap")
  THEN "No noteMap provided, please provide a mapping of MIDI notes to pads."
  ELSE IF ~Has(args, "patternPPQN") \/ args.patternPPQN = 0
  THEN "No patternPPQN provided, please provide a PPQN for the pattern: OG is 96, MKii is 480."
  ELSE ""

\* insertEmptyNotes(gap).  The loop runs while gap > 0 and takes
\* min(gap, 255) off gap each time, so that it runs ceil(gap / 255) times
\* and its k-th iteration starts with gap - 255 * (k - 1); each iteration
\* writes the 8 bytes of one empty note, so that the j-th byte written is
\* byte ((j - 1) % 8) + 1 of iteration ((j - 1) \div 8) + 1.
EmptyNote(ticksToInsert) ==
  writeUInt16(
    writeUInt8(writeUInt8(writeUInt8(writeUInt8(writeUInt8(writeUInt8(<<>>,
      ticksToInsert), 128), 0), 0), 0), 0),
    0)

insertEmptyNotes(buffer, gap) ==
  IF gap > 0
  THEN LET iterations == (gap + (maxTicksInGap - 1)) \div maxTicksInGap
       IN  buffer \o
           [j \in 1..(8 * iterations) |->
              EmptyNote(Min(gap - (maxTicksInGap * ((j - 1) \div 8)), maxTicksInGap))
                [((j - 1) % 8) + 1]]
  ELSE buffer

\* The Note-On events of one track, those with velocity 0 among them.
RECURSIVE TrackNoteOnsOfAnyVelocity(_, _, _)
TrackNoteOnsOfAnyVelocity(events, i, absoluteTime) ==
  IF i > Len(events)
  THEN <<>>
  ELSE LET event == events[i]
           time == absoluteTime + event.deltaTime
       IN  IF /\ ~Has(event.data, "string")
              /\ Has(event, "type")
              /\ Has(event.data, "velocity")
              /\ event.type = 144
           THEN <<[absoluteTime |-> time,
                   note |-> event.data.note,
                   velocity |-> event.data.velocity,
                   length |-> event.data.length]>>
                \o TrackNoteOnsOfAnyVelocity(events, i + 1, time)
           ELSE TrackNoteOnsOfAnyVelocity(events, i + 1, time)

\* The Note-On events (velocity > 0) of one track with their absolute time.
RECURSIVE TrackNoteOns(_, _, _)
TrackNoteOns(events, i, absoluteTime) ==
  IF i > Len(events)
  THEN <<>>
  ELSE LET event == events[i]
           time == absoluteTime + event.deltaTime
       IN  IF /\ ~Has(event.data, "string")
              /\ Has(event, "type")
              /\ Has(event.data, "velocity")
              /\ event.type = 144
              /\ event.data.velocity > 0
           THEN <<[absoluteTime |-> time,
                   note |-> event.data.note,
                   velocity |-> event.data.velocity,
                   length |-> event.data.length]>>
                \o TrackNoteOns(events, i + 1, time)
           ELSE TrackNoteOns(events, i + 1, time)

\* The flattening of all the tracks into one list.
RECURSIVE FlattenChunks(_, _)
FlattenChunks(chunks, t) ==
  IF t > Len(chunks)
  THEN <<>>
  ELSE IF ~Has(chunks[t], "events")
  THEN FlattenChunks(chunks, t + 1)
  ELSE TrackNoteOns(chunks[t].events, 1, 0) \o FlattenChunks(chunks, t + 1)

\* Array.prototype.sort with (a, b) => a.absoluteTime - b.absoluteTime: a
\* stable sort, here by insertion after the elements that are not later.
RECURSIVE InsertByTime(_, _)
InsertByTime(sorted, e) ==
  IF sorted = <<>>
  THEN <<e>>
  ELSE IF sorted[Len(sorted)].absoluteTime <= e.absoluteTime
  THEN Append(sorted, e)
  ELSE Append(InsertByTime(SubSeq(sorted, 1, Len(sorted) - 1), e), sorted[Len(sorted)])

\* The events left in the order in which they were pushed.
InPushOrder(events) == events

RECURSIVE SortByTime(_)
SortByTime(events) ==
  IF events = <<>>
  THEN <<>>
  ELSE InsertByTime(SortByTime(SubSeq(events, 1, Len(events) - 1)), events[Len(events)])

\* allEvents of fromMidi: the Note-On events of all tracks, sorted.
AllEvents(audioMIDI) == SortByTime(FlattenChunks(audioMIDI.chunks, 1))

\* The pad of the table that the note map gives for a MIDI note.
PadMapping(noteMap, note, og) ==
  LET pad == IF Has(noteMap, note) THEN noteMap[note] ELSE Undefined
      map == IF og THEN defaultMapOG ELSE defaultMap
  IN  IF Has(map, pad) THEN <<map[pad]>> ELSE <<>>

\* The loop over the sorted events, from event i on.  st holds the locals of
\* fromMidi: buffer, currentTime, totalTrackLength, lastAbsoluteTime; error
\* is the TypeError of destructuring an entry that the table does not have.
RECURSIVE NoteLoop(_, _, _, _, _, _, _)
NoteLoop(allEvents, i, st, noteMap, patternPPQN, midiPPQN, og) ==
  IF i > Len(allEvents) \/ st.error # ""
  THEN st
  ELSE LET event == allEvents[i]
           ticks == Round((event.absoluteTime - st.lastAbsoluteTime) * patternPPQN, midiPPQN)
           gap == ticks - st.currentTime
           b0 == IF gap > 255 THEN insertEmptyNotes(st.buffer, gap) ELSE st.buffer
           mapping == PadMapping(noteMap, event.note, og)
       IN  IF mapping = <<>>
           THEN [st EXCEPT !.buffer = b0, !.error = "TypeError"]
           ELSE LET bankSwitch == mapping[1].bankSwitch
                    midiNote == mapping[1].midiNote
                    pitchMode == 0
                    correctedLength == Round(event.length * patternPPQN, midiPPQN)
                    b1 == writeUInt8(b0, ticks)
                    b2 == writeUInt8(b1, midiNote)
                    b3 == writeUInt8(b2, bankSwitch)
                    b4 == writeUInt8(b3, pitchMode)
                    b5 == writeUInt8(b4, event.velocity)
                    b6 == writeUInt8(b5, 64)
                    b7 == writeUInt16(b6, correctedLength)
                IN  NoteLoop(allEvents, i + 1,
                             [buffer |-> b7,
                              currentTime |-> st.currentTime + ticks,
                              totalTrackLength |-> st.totalTrackLength + correctedLength,
                              lastAbsoluteTime |-> event.absoluteTime,
                              error |-> ""],
                             noteMap, patternPPQN, midiPPQN, og)

\* A rounding that writes the ticks past the last bar instead of the ticks
\* to the next one.
RoundToBarByRemainder(st, ticksPerBar) ==
  IF st.currentTime = 0 /\ st.totalTrackLength > 0
  THEN [buffer |-> insertEmptyNotes(st.buffer, ticksPerBar), currentTime |-> st.currentTime]
  ELSE LET remainder == st.currentTime % ticksPerBar
           ticksToNextBar == ticksPerBar - remainder
       IN  IF remainder # 0
           THEN IF st.currentTime + ticksToNextBar <= maxBars * ticksPerBar
                THEN [buffer |-> insertEmptyNotes(st.buffer, remainder),
                      currentTime |-> st.currentTime + ticksToNextBar]
                ELSE [buffer |-> st.buffer, currentTime |-> maxBars * ticksPerBar]
           ELSE [buffer |-> st.buffer, currentTime |-> st.currentTime]

\* The rounding of the track to whole bars: the buffer and currentTime after it.
RoundToBar(st, ticksPerBar) ==
  IF st.currentTime = 0 /\ st.totalTrackLength > 0
  THEN [buffer |-> insertEmptyNotes(st.buffer, ticksPerBar), currentTime |-> st.currentTime]
  ELSE LET remainder == st.currentTime % ticksPerBar
           ticksToNextBar == ticksPerBar - remainder
       IN  IF remainder # 0
           THEN IF st.currentTime + ticksToNextBar <= maxBars * ticksPerBar
                THEN [buffer |-> insertEmptyNotes(st.buffer, ticksToNextBar),
                      currentTime |-> st.currentTime + ticksToNextBar]
                ELSE [buffer |-> st.buffer, currentTime |-> maxBars * ticksPerBar]
           ELSE [buffer |-> st.buffer, currentTime |-> st.currentTime]

\* A footer that holds the bar count on both revisions.
FooterWithBars(bars, og) ==
  [k \in 1..16 |->
     IF k = 2 THEN ToUint8(140)
     ELSE IF k = 9 THEN ToUint8(bars)
     ELSE IF k = 10 THEN ToUint8(IF og THEN 2 ELSE 0)
     ELSE IF k = 14 THEN ToUint8(IF og THEN 0 ELSE 128)
     ELSE IF k = 15 THEN ToUint8(bars)
     ELSE IF k = 16 THEN ToUint8(IF og THEN 0 ELSE 1)
     ELSE 0]

\* The footer, a Uint8Array of 16 elements.
Footer(bars, og) ==
  [k \in 1..16 |->
     IF k = 2 THEN ToUint8(140)
     ELSE IF k = 9 THEN ToUint8(IF og THEN 0 ELSE bars)
     ELSE IF k = 10 THEN ToUint8(IF og THEN 2 ELSE 0)
     ELSE IF k = 14 THEN ToUint8(IF og THEN 0 ELSE 128)
     ELSE IF k = 15 THEN ToUint8(IF og THEN 0 ELSE bars)
     ELSE IF k = 16 THEN ToUint8(IF og THEN 0 ELSE 1)
     ELSE 0]

\* The result of a call that raised error before it returned.
FromMidiThrow(error, created, buffer) ==
  [error |-> error, created |-> created, returned |-> FALSE, buffer |-> buffer,
   noteTime |-> 0, noteBytes |-> 0, totalTrackLength |-> 0, bars |-> 0]

\* fromMidi(audioMIDI, noteMap, patternPPQN, og).  The result has the error
\* raised ("" when the call returns), whether the DataBuffer was created and
\* whether it was returned, its buffer, and these locals of the call:
\* noteTime, the value of currentTime after the loop over the events;
\* noteBytes, the length of the buffer after that loop; totalTrackLength;
\* bars.
FromMidi(args) ==
  IF FromMidiArgumentError(args) # ""
  THEN FromMidiThrow(FromMidiArgumentError(args), FALSE, <<>>)
  ELSE LET og == IF Has(args, "og") THEN args.og ELSE FALSE
           midiPPQN == args.audioMIDI.timeDivision
           patternPPQN == args.patternPPQN
           ticksPerBar == patternPPQN * 4
           st == NoteLoop(AllEvents(args.audioMIDI), 1,
                          [buffer |-> <<>>, currentTime |-> 0, totalTrackLength |-> 0,
                           lastAbsoluteTime |-> 0, error |-> ""],
                          args.noteMap, patternPPQN, midiPPQN, og)
       IN  IF st.error # ""
           THEN FromMidiThrow(st.error, TRUE, st.buffer)
           ELSE LET rounded == RoundToBar(st, ticksPerBar)
                    bars == Round(rounded.currentTime, ticksPerBar)
                IN  [error |-> "", created |-> TRUE, returned |-> TRUE,
                     buffer |-> writeBytes(rounded.buffer, Footer(bars, og)),
                     noteTime |-> st.currentTime,
                     noteBytes |-> Len(st.buffer),
                     totalTrackLength |-> st.totalTrackLength,
                     bars |-> bars]

(***************************************************************************)
(* AudioMIDI: the events that toMidi generates.                            *)
(***************************************************************************)
generateTempoEvent(bpm) ==
  LET tempo == Round(60000000, bpm)
  IN  [deltaTime |-> 0, type |-> 255, metaType |-> 81, metaEventLength |-> 3,
       data |-> [byte1 |-> (tempo \div 65536) % 256,
                 byte2 |-> (tempo \div 256) % 256,
                 byte3 |-> tempo % 256,
                 tempo |-> tempo,
                 bpm |-> bpm],
       label |-> "Set Tempo"]

generateMetaStringEvent(metaType, data) ==
  [deltaTime |-> 0, type |-> 255, metaType |-> metaType, metaEventLength |-> Len(data),
   data |-> [string |-> data],
   label |-> IF metaType = 3 THEN "Sequence / Track Name" ELSE "Meta Event"]

generateEndOfTrackEvent ==
  [data |-> [string |-> ""], deltaTime |-> 0, type |-> 255, metaType |-> 47,
   metaEventLength |-> 0, label |-> "End of Track"]

(***************************************************************************)
(* AudioPattern.toMidi                                                     *)
(***************************************************************************)
\* The loop with the ticks of a skipped note left out of the absolute time.
RECURSIVE NoteEventsSkippingTicks(_, _, _, _)
NoteEventsSkippingTicks(notes, i, time, noteMap) ==
  IF i > Len(notes)
  THEN <<>>
  ELSE LET note == notes[i]
           absoluteTime == time + note.ticks
       IN  IF ~Has(noteMap, note.padLabel) \/ noteMap[note.padLabel] = 0
           THEN NoteEventsSkippingTicks(notes, i + 1, time, noteMap)
           ELSE LET midiNote == noteMap[note.padLabel]
                    noteOn == [absoluteTime |-> absoluteTime, deltaTime |-> 0,
                               type |-> 144, channel |-> 0,
                               data |-> [note |-> ToString(midiNote),
                                         velocity |-> note.velocity,
                                         length |-> note.length],
                               label |-> "Note On"]
                    noteOff == [absoluteTime |-> absoluteTime + note.length, deltaTime |-> 0,
                                type |-> 128, channel |-> 0,
                                data |-> [note |-> ToString(midiNote),
                                          velocity |-> 0,
                                          length |-> note.length],
                                label |-> "Note Off"]
                IN  (IF note.length > 0 THEN <<noteOn, noteOff>> ELSE <<noteOn>>)
                    \o NoteEventsSkippingTicks(notes, i + 1, absoluteTime, noteMap)

\* The loop with a Note Off for every note, whatever its length.
RECURSIVE NoteEventsAlwaysOff(_, _, _, _)
NoteEventsAlwaysOff(notes, i, time, noteMap) ==
  IF i > Len(notes)
  THEN <<>>
  ELSE LET note == notes[i]
           absoluteTime == time + note.ticks
       IN  IF ~Has(noteMap, note.padLabel) \/ noteMap[note.padLabel] = 0
           THEN NoteEventsAlwaysOff(notes, i + 1, absoluteTime, noteMap)
           ELSE LET midiNote == noteMap[note.padLabel]
                    noteOn == [absoluteTime |-> absoluteTime, deltaTime |-> 0,
                               type |-> 144, channel |-> 0,
                               data |-> [note |-> ToString(midiNote),
                                         velocity |-> note.velocity,
                                         length |-> note.length],
                               label |-> "Note On"]
                    noteOff == [absoluteTime |-> absoluteTime + note.length, deltaTime |-> 0,
                                type |-> 128, channel |-> 0,
                                data |-> [note |-> ToString(midiNote),
                                          velocity |-> 0,
                                          length |-> note.length],
                                label |-> "Note Off"]
                IN  <<noteOn, noteOff>>
                    \o NoteEventsAlwaysOff(notes, i + 1, absoluteTime, noteMap)

\* The loop over the notes: the Note On and Note Off events in the order in
\* which they are pushed.  The note map is an object here.
RECURSIVE NoteEvents(_, _, _, _)
NoteEvents(notes, i, time, noteMap) ==
  IF i > Len(notes)
  THEN <<>>
  ELSE LET note == notes[i]
           absoluteTime == time + note.ticks
       IN  IF ~Has(noteMap, note.padLabel) \/ noteMap[note.padLabel] = 0
           THEN NoteEvents(notes, i + 1, absoluteTime, noteMap)
           ELSE LET midiNote == noteMap[note.padLabel]
                    noteOn == [absoluteTime |-> absoluteTime, deltaTime |-> 0,
                               type |-> 144, channel |-> 0,
                               data |-> [note |-> ToString(midiNote),
                                         velocity |-> note.velocity,
                                         length |-> note.length],
                               label |-> "Note On"]
                    noteOff == [absoluteTime |-> absoluteTime + note.length, deltaTime |-> 0,
                                type |-> 128, channel |-> 0,
                                data |-> [note |-> ToString(midiNote),
                                          velocity |-> 0,
                                          length |-> note.length],
                                label |-> "Note Off"]
                IN  (IF note.length > 0 THEN <<noteOn, noteOff>> ELSE <<noteOn>>)
                    \o NoteEvents(notes, i + 1, absoluteTime, noteMap)

\* The conversion of the absolute times of the sorted events to delta times.
DeltaTimes(events) ==
  [k \in 1..Len(events) |->
     [events[k] EXCEPT !.deltaTime =
        events[k].absoluteTime - (IF k = 1 THEN 0 ELSE events[k - 1].absoluteTime)]]

\* toMidi with the track name pushed before the tempo.
ToMidiNameFirst(this, args) ==
  IF ~Has(args, "noteMap") /\ this.notes # <<>>
  THEN [error |-> "TypeError", midi |-> <<>>]
  ELSE LET allEvents == IF this.notes = <<>>
                        THEN <<>>
                        ELSE DeltaTimes(SortByTime(NoteEvents(this.notes, 1, 0, args.noteMap)))
           fileName == IF Has(args, "fileName") THEN args.fileName ELSE Undefined
           events == <<generateMetaStringEvent(3, "SP404 Pattern " \o fileName)>>
                     \o (IF Has(args, "bpm") /\ args.bpm # 0
                         THEN <<generateTempoEvent(args.bpm)>> ELSE <<>>)
                     \o allEvents
                     \o <<generateEndOfTrackEvent>>
           track == [type |-> "MTrk", chunkLength |-> 0, events |-> events]
       IN  [error |-> "",
            midi |-> <<[typeof |-> "object",
                        format |-> 1,
                        trackCount |-> 1,
                        timeDivision |-> IF Has(args, "ppq") THEN args.ppq ELSE Undefined,
                        chunks |-> <<track>>]>>]

\* toMidi({ bpm, ppq, fileName, noteMap }) on an instance this: the error
\* raised ("" when the call returns) and the document returned.  Without a
\* note map the first note raises the TypeError of reading a property of
\* undefined; nothing else in toMidi looks at its arguments.
ToMidi(this, args) ==
  IF ~Has(args, "noteMap") /\ this.notes # <<>>
  THEN [error |-> "TypeError", midi |-> <<>>]
  ELSE LET allEvents == IF this.notes = <<>>
                        THEN <<>>
                        ELSE DeltaTimes(SortByTime(NoteEvents(this.notes, 1, 0, args.noteMap)))
           fileName == IF Has(args, "fileName") THEN args.fileName ELSE Undefined
           events == (IF Has(args, "bpm") /\ args.bpm # 0
                      THEN <<generateTempoEvent(args.bpm)>> ELSE <<>>)
                     \o <<generateMetaStringEvent(3, "SP404 Pattern " \o fileName)>>
                     \o allEvents
                     \o <<generateEndOfTrackEvent>>
           track == [type |-> "MTrk", chunkLength |-> 0, events |-> events]
       IN  [error |-> "",
            midi |-> <<[typeof |-> "object",
                        format |-> 1,
                        trackCount |-> 1,
                        timeDivision |-> IF Has(args, "ppq") THEN args.ppq ELSE Undefined,
                        chunks |-> <<track>>]>>]

\* The instance after toMidi(args): toMidi reads this.notes and assigns to
\* no field of the instance or of a note; the events it sorts and whose
\* deltaTime it sets are the objects that it made.
ToMidiThisShifted(this, args) == [this EXCEPT !.notes = <<>>]

ToMidiThis(this, args) == this

\* The document after fromMidi(audioMIDI, ...): fromMidi reads the chunks
\* and their events, and the list that it sorts holds objects that it made.
FromMidiAudioMIDI(audioMIDI) == audioMIDI

\* getUsedPads(): the pad labels of the notes, each once, in the order of
\* their first note.
getUsedPads(this) ==
  LET notes == this.notes
      firsts == {k \in 1..Len(notes) : \A j \in 1..(k - 1) : notes[j].padLabel # notes[k].padLabel}
  IN  [i \in 1..Cardinality(firsts) |->
         notes[CHOOSE k \in firsts : Cardinality({j \in firsts : j <= k}) = i].padLabel]

(***************************************************************************)
(* AudioPadInfo (src/audio-padinfo.js), as its documentation, declarations *)
(* and tests describe it: the labels of the 120 pads, the 32-byte record   *)
(* of a pad and its encoder, decoder and default check.                    *)
(***************************************************************************)
\* The labels of the pads in the order of PAD_INFO.BIN: A1 to J12.
PadLabels ==
  [i \in 1..120 |-> FromCharCode(65 + ((i - 1) \div 12)) \o ToString(((i - 1) % 12) + 1)]

\* The same labels in lower case.
LowerCaseLabels ==
  [i \in 1..120 |->
     <<"a", "b", "c", "d", "e", "f", "g", "h", "i", "j">>[((i - 1) \div 12) + 1]
       \o ToString(((i - 1) % 12) + 1)]

\* String.prototype.toUpperCase, for the strings of the model: the lower
\* case labels have letters to raise, every other string is its own upper
\* case.
ToUpperCase(string) ==
  IF \E i \in 1..120 : LowerCaseLabels[i] = string
  THEN PadLabels[CHOOSE i \in 1..120 : LowerCaseLabels[i] = string]
  ELSE string

\* AudioPadInfo.getPadLabel(index); index is <<>> when it is not passed.
getPadLabelFromOne(index) ==
  IF index # <<>> /\ index[1] \in 1..120 THEN PadLabels[index[1]] ELSE ""

getPadLabel(index) ==
  IF index # <<>> /\ index[1] \in 0..119 THEN PadLabels[index[1] + 1] ELSE ""

\* AudioPadInfo.getPadIndex(label); label is <<>> when it is not passed.
getPadIndex(label) ==
  IF label # <<>> /\ (\E i \in 1..120 : PadLabels[i] = ToUpperCase(label[1]))
  THEN (CHOOSE i \in 1..120 : PadLabels[i] = ToUpperCase(label[1])) - 1
  ELSE 0 - 1

\* JavaScript values of the fields of a pad: a number is its integer part
\* and its first decimal (109.9 is int 109, frac 9), so that a tempo times
\* 10 is exact.
Number(int, frac) == [typeof |-> "number", int |-> int, frac |-> frac]

Integer(n) == Number(n, 0)

String(s) == [typeof |-> "string", string |-> s]

Boolean(b) == [typeof |-> "boolean", boolean |-> b]

\* Number.isInteger(v)
IsInteger(v) == v.typeof = "number" /\ v.frac = 0

\* The value v within a template literal.
ValueToString(v) ==
  IF v.typeof = "string" THEN v.string
  ELSE IF v.typeof = "boolean" THEN (IF v.boolean THEN "true" ELSE "false")
  ELSE IF v.frac = 0 THEN ToString(v.int)
  ELSE ToString(v.int) \o "." \o ToString(v.frac)

\* The defaults of the fields of encodePad(data).
PadDefaults ==
  [originalSampleStart |-> Integer(512), originalSampleEnd |-> Integer(512),
   userSampleStart |-> Integer(512), userSampleEnd |-> Integer(512),
   volume |-> Integer(127), lofi |-> Boolean(FALSE), loop |-> Boolean(FALSE),
   gate |-> Boolean(TRUE), reverse |-> Boolean(FALSE), format |-> String("WAVE"),
   channels |-> Integer(2), tempoMode |-> String("Off"),
   originalTempo |-> Integer(120), userTempo |-> Integer(120)]

\* The four bytes of an unsigned 32-bit number, big-endian.
UInt32BE(n) == <<n \div 16777216, (n \div 65536) % 256, (n \div 256) % 256, n % 256>>

\* The number of channels that encodePad writes: the names are 1 and 2.
ChannelsNumber(channels) ==
  IF channels = String("Mono") THEN Integer(1)
  ELSE IF channels = String("Stereo") THEN Integer(2)
  ELSE channels

\* The tempo mode that encodePad writes: the names are 0, 1 and 2.
TempoModeNumber(tempoMode) ==
  IF tempoMode = String("Off") THEN Integer(0)
  ELSE IF tempoMode = String("Pattern") THEN Integer(1)
  ELSE IF tempoMode = String("User") THEN Integer(2)
  ELSE tempoMode

\* The record of 32 bytes with the numbers of 32 bits little-endian.
WritePadLittleEndian(d) ==
  LET flag(v) == IF v.boolean THEN 1 ELSE 0
      UInt32LE(n) == <<n % 256, (n \div 256) % 256, (n \div 65536) % 256, n \div 16777216>>
  IN  UInt32LE(d.originalSampleStart.int) \o UInt32LE(d.originalSampleEnd.int)
      \o UInt32LE(d.userSampleStart.int) \o UInt32LE(d.userSampleEnd.int)
      \o <<ToUint8(d.volume.int), flag(d.lofi), flag(d.loop), flag(d.gate), flag(d.reverse),
           IF d.format = String("WAVE") THEN 1 ELSE 0,
           ToUint8(ChannelsNumber(d.channels).int),
           ToUint8(TempoModeNumber(d.tempoMode).int)>>
      \o UInt32LE((d.originalTempo.int * 10) + d.originalTempo.frac)
      \o UInt32LE((d.userTempo.int * 10) + d.userTempo.frac)

\* The record of 32 bytes that encodePad writes for the fields d: the four
\* sample offsets, the volume, the flags, the format, the channels, the
\* tempo mode and the two tempos times 10, big-endian.
WritePad(d) ==
  LET flag(v) == IF v.boolean THEN 1 ELSE 0
  IN  UInt32BE(d.originalSampleStart.int) \o UInt32BE(d.originalSampleEnd.int)
      \o UInt32BE(d.userSampleStart.int) \o UInt32BE(d.userSampleEnd.int)
      \o <<ToUint8(d.volume.int), flag(d.lofi), flag(d.loop), flag(d.gate), flag(d.reverse),
           IF d.format = String("WAVE") THEN 1 ELSE 0,
           ToUint8(ChannelsNumber(d.channels).int),
           ToUint8(TempoModeNumber(d.tempoMode).int)>>
      \o UInt32BE((d.originalTempo.int * 10) + d.originalTempo.frac)
      \o UInt32BE((d.userTempo.int * 10) + d.userTempo.frac)

\* encodePad with the volumes that it accepts.  The result is the error
\* raised ("" when none) and pad, <<buffer>> when one is returned.
EncodePadChecked(data, volumes) ==
  LET d == data @@ PadDefaults
      channels == ChannelsNumber(d.channels)
      tempoMode == TempoModeNumber(d.tempoMode)
  IN  IF ~(IsInteger(d.volume) /\ d.volume.int \in volumes)
      THEN [error |-> "Volume is invalid, " \o ValueToString(d.volume)
                        \o " should be an integer between 0 and 127.",
            pad |-> <<>>]
      ELSE IF ~(IsInteger(channels) /\ channels.int \in 1..2)
      THEN [error |-> "Channels is invalid, " \o ValueToString(d.channels)
                        \o " should be an integer between 1 and 2.",
            pad |-> <<>>]
      ELSE IF ~(IsInteger(tempoMode) /\ tempoMode.int \in 0..2)
      THEN [error |-> "Tempo Mode is invalid, " \o ValueToString(d.tempoMode)
                        \o " should be one of 'Off', 'Pattern', or 'User'.",
            pad |-> <<>>]
      ELSE [error |-> "", pad |-> <<WritePad(d)>>]

\* AudioPadInfo.encodePad(data): data is the record of the fields that are
\* given, << >> when encodePad is called without an argument.
encodePadOfAnyByte(data) == EncodePadChecked(data, 0..255)

encodePad(data) == EncodePadChecked(data, 0..127)

\* The unsigned 32-bit number at the offset o of the bytes, big-endian.
ReadUInt32BE(bytes, o) ==
  (bytes[o + 1] * 16777216) + (bytes[o + 2] * 65536) + (bytes[o + 3] * 256) + bytes[o + 4]

\* The pad that parse decodes from the 32 bytes of the record of the index.
\* A flag of 0 or 1 is a boolean and any other byte is kept as a number; a
\* format or channels that is unknown is 'Invalid (n)', a tempo mode
\* 'Invalid'; a tempo is the number read divided by 10.  (The field
\* avaliable, which the tests show only for pads in use, is left out.)
DecodePad(bytes, index) ==
  LET flag(byte) == IF byte = 0 THEN Boolean(FALSE)
                    ELSE IF byte = 1 THEN Boolean(TRUE)
                    ELSE Integer(byte)
      tempo(n) == Number(n \div 10, n % 10)
  IN  [label |-> getPadLabel(<<index>>),
       originalSampleStart |-> Integer(ReadUInt32BE(bytes, 0)),
       originalSampleEnd |-> Integer(ReadUInt32BE(bytes, 4)),
       userSampleStart |-> Integer(ReadUInt32BE(bytes, 8)),
       userSampleEnd |-> Integer(ReadUInt32BE(bytes, 12)),
       volume |-> Integer(bytes[17]),
       lofi |-> flag(bytes[18]),
       loop |-> flag(bytes[19]),
       gate |-> flag(bytes[20]),
       reverse |-> flag(bytes[21]),
       format |-> String(IF bytes[22] = 0 THEN "AIFF"
                         ELSE IF bytes[22] = 1 THEN "WAVE"
                         ELSE "Invalid (" \o ToString(bytes[22]) \o ")"),
       channels |-> String(IF bytes[23] = 1 THEN "Mono"
                           ELSE IF bytes[23] = 2 THEN "Stereo"
                           ELSE "Invalid (" \o ToString(bytes[23]) \o ")"),
       tempoMode |-> String(IF bytes[24] = 0 THEN "Off"
                            ELSE IF bytes[24] = 1 THEN "Pattern"
                            ELSE IF bytes[24] = 2 THEN "User"
                            ELSE "Invalid"),
       originalTempo |-> tempo(ReadUInt32BE(bytes, 24)),
       userTempo |-> tempo(ReadUInt32BE(bytes, 28))]

\* The pads with the records counted from 1.
fromFileFromOne(data) ==
  [i \in 1..(Len(data) \div 32) |-> DecodePad(SubSeq(data, (32 * (i - 1)) + 1, 32 * i), i)]

\* AudioPadInfo.fromFile(data).pads, for data of whole records: parse
\* decodes a pad from each 32 bytes while bytes remain.
fromFile(data) ==
  [i \in 1..(Len(data) \div 32) |-> DecodePad(SubSeq(data, (32 * (i - 1)) + 1, 32 * i), i - 1)]

\* AudioPadInfo.checkDefault(pad, strict): pad is <<>> when it is not
\* passed and <<p>> for the object p, whose fields may be missing; strict is
\* <<>> when it is not passed.
OffsetsAreDefault(p) ==
  \A f \in {"originalSampleStart", "originalSampleEnd", "userSampleStart", "userSampleEnd"} :
    Has(p, f) /\ p[f] = Integer(512)

checkDefaultOfOffsets(pad, strict) == pad # <<>> /\ OffsetsAreDefault(pad[1])

checkDefault(pad, strict) ==
  IF pad = <<>> THEN FALSE
  ELSE IF strict # <<TRUE>> THEN OffsetsAreDefault(pad[1])
  ELSE /\ OffsetsAreDefault(pad[1])
       /\ \A f \in {"volume", "lofi", "loop", "gate", "reverse", "format", "channels",
                    "tempoMode", "originalTempo", "userTempo"} :
            Has(pad[1], f) /\ pad[1][f] = PadDefaults[f]

(***************************************************************************)
(* The inputs of the model.                                                *)
(***************************************************************************)
\* The options of the two hardware revisions.
OptionsMKii == [bytesPerNote |-> 8, padsPerBank |-> 16, og |-> FALSE]

OptionsOG == [bytesPerNote |-> 8, padsPerBank |-> 12, og |-> TRUE]

\* The records of the pattern files: notes of two pads and a rest.
NoteRecords ==
  {[ticks |-> t, midiNote |-> n, bankSwitch |-> 64, pitchMode |-> 0,
    velocity |-> 100, unknown3 |-> 64, length |-> l] :
     t \in {0, 100}, n \in {47, 71}, l \in {0, 10}}
  \cup {[ticks |-> 100, midiNote |-> 128, bankSwitch |-> 0, pitchMode |-> 0,
         velocity |-> 0, unknown3 |-> 0, length |-> 0]}

RecordBytes(r) ==
  <<r.ticks, r.midiNote, r.bankSwitch, r.pitchMode, r.velocity, r.unknown3,
    r.length % 256, r.length \div 256>>

RECURSIVE Flatten(_)
Flatten(seqs) == IF seqs = <<>> THEN <<>> ELSE Head(seqs) \o Flatten(Tail(seqs))

\* A pattern file of the revision: its records and a footer of one bar.
PatternFile(records, options) ==
  Flatten([k \in 1..Len(records) |-> RecordBytes(records[k])]) \o Footer(1, options.og)

SeqsUpTo(S, n) == UNION {[1..k -> S] : k \in 0..n}

\* The note maps given to toMidi: pad label -> MIDI note.
PadToNote == ("A1" :> 60) @@ ("B9" :> 61) @@ ("F1" :> 62) @@ ("H1" :> 63)

PadToNotePartial == ("A1" :> 60) @@ ("B9" :> 0) @@ ("F1" :> 62)

\* The arguments of toMidi: with a tempo, with the PPQ of the other
\* revision, with a note map that lacks pads; then without a note map and
\* without a ppq.
ToMidiArguments ==
  {[bpm |-> 120, ppq |-> defaultPPQ, fileName |-> "PTN00001.BIN", noteMap |-> PadToNote],
   [ppq |-> defaultPPQOG, fileName |-> "PTN00001.BIN", noteMap |-> PadToNote],
   [ppq |-> defaultPPQ, fileName |-> "PTN00001.BIN", noteMap |-> PadToNotePartial]}

ToMidiArgumentCases ==
  ToMidiArguments
  \cup {[ppq |-> defaultPPQ, fileName |-> "PTN00001.BIN"],
        [bpm |-> 120, fileName |-> "PTN00001.BIN", noteMap |-> PadToNote],
        [fileName |-> "PTN00001.BIN"]}

\* The arguments of toMidi with a tempo, without one, and with one of 0.
ToMidiTempoArguments ==
  ToMidiArguments
  \cup {[bpm |-> 0, ppq |-> defaultPPQ, fileName |-> "PTN00001.BIN", noteMap |-> PadToNote]}

\* The arguments of toMidi with a note map that also has the pads F2 and
\* G10, pads of the tables of both revisions.
ToMidiRestArguments ==
  {[ppq |-> defaultPPQ, fileName |-> "PTN00001.BIN",
    noteMap |-> PadToNote @@ ("F2" :> 64) @@ ("G10" :> 65)]}

\* The inverse of a note map of toMidi, as a note map of fromMidi.
Inverse(noteMap) ==
  LET pads == {p \in DOMAIN noteMap : noteMap[p] # 0}
  IN  [k \in {ToString(noteMap[p]) : p \in pads} |->
         CHOOSE p \in pads : ToString(noteMap[p]) = k]

\* The events of the MIDI documents that are loaded.
Deltas == {0, 1, 600, 1920, 24960}

NoteOn(deltaTime, note, velocity, length) ==
  [deltaTime |-> deltaTime, type |-> 144, channel |-> 0,
   data |-> [note |-> note, velocity |-> velocity, length |-> length],
   label |-> "Note On"]

NoteOff(deltaTime, note) ==
  [deltaTime |-> deltaTime, type |-> 128, channel |-> 0,
   data |-> [note |-> note, velocity |-> 0, length |-> 0],
   label |-> "Note Off"]

MidiEvents ==
  {NoteOn(d, "60", 100, 10) : d \in Deltas}
  \cup {NoteOn(0, "60", 100, 0), NoteOn(1, "61", 100, 10), NoteOn(1, "60", 0, 0),
        NoteOff(1, "60")}

\* The note maps given to fromMidi: MIDI note -> pad label.  "61" is not
\* mapped by the second; the third maps it to a pad that only the current
\* revision has.
NoteToPad == ("60" :> "A1") @@ ("61" :> "B9")

NoteToPadPartial == ("60" :> "A1")

NoteToPadMKii == ("60" :> "A1") @@ ("61" :> "A13")

PPQNs == {defaultPPQOG, defaultPPQ}

(***************************************************************************)
(* The state: the values in the hands of a caller that runs a pattern      *)
(* through the converters.  Each is <<>> until the call that makes it.     *)
(***************************************************************************)
VARIABLES
  pattern,     \* <<[this, options]>>: the AudioPattern constructed from a file
  midi,        \* <<[doc, call]>>: the MIDI document at hand (doc = <<document>>),
               \* and the call of toMidi that was to return it (call =
               \* <<args>>, and doc = <<>> when that call raised an error)
  dataBuffer,  \* <<[result, args]>>: the last call of fromMidi
  rebuilt,     \* <<[this, options, error]>>: the AudioPattern constructed from
               \* the bytes that fromMidi wrote
  parsed,      \* <<[data, options, this, error]>>: the bytes of a file of any
               \* length and what parse made of them; when error is not ""
               \* the constructor raised it and this is what parse left
  padInfo,     \* <<[call, ...]>>: the last call of a member of AudioPadInfo,
               \* its arguments and what it returned
  error        \* the error raised by the last call, "" when it returned

vars == <<pattern, midi, dataBuffer, rebuilt, parsed, padInfo, error>>

Init ==
  /\ pattern = <<>>
  /\ midi = <<>>
  /\ dataBuffer = <<>>
  /\ rebuilt = <<>>
  /\ parsed = <<>>
  /\ padInfo = <<>>
  /\ error = ""

\* new AudioPattern(file, options)
New ==
  /\ pattern = <<>>
  /\ midi = <<>>
  /\ \E records \in SeqsUpTo(NoteRecords, MaxNotes), options \in {OptionsMKii, OptionsOG} :
       LET r == Construct(PatternFile(records, options), options)
       IN  /\ pattern' = IF r.error = "" THEN <<[this |-> r.this, options |-> options]>>
                         ELSE <<>>
           /\ error' = r.error
  /\ UNCHANGED <<midi, dataBuffer, rebuilt, parsed, padInfo>>

\* pattern.toMidi(args), with args drawn from the set arguments.
ToMidiCall(arguments) ==
  /\ pattern # <<>>
  /\ midi = <<>>
  /\ \E args \in arguments :
       LET r == ToMidi(pattern[1].this, args)
       IN  /\ midi' = <<[doc |-> r.midi, call |-> <<args>>]>>
           /\ pattern' = <<[pattern[1] EXCEPT !.this = ToMidiThis(pattern[1].this, args)]>>
           /\ error' = r.error
  /\ UNCHANGED <<dataBuffer, rebuilt, parsed, padInfo>>

\* pattern.toMidi(args) once more, with the arguments of the call that
\* returned the document at hand; again is what this call returns.
ToMidiAgainCall ==
  /\ pattern # <<>>
  /\ midi # <<>>
  /\ midi[1].call # <<>>
  /\ midi[1].doc # <<>>
  /\ ~Has(midi[1], "again")
  /\ LET r == ToMidi(pattern[1].this, midi[1].call[1])
     IN  /\ midi' = <<[again |-> r.midi] @@ midi[1]>>
         /\ pattern' = <<[pattern[1] EXCEPT
                            !.this = ToMidiThis(pattern[1].this, midi[1].call[1])]>>
         /\ error' = r.error
  /\ UNCHANGED <<dataBuffer, rebuilt, parsed, padInfo>>

\* A MIDI document from elsewhere: one track of events.
Load ==
  /\ pattern = <<>>
  /\ midi = <<>>
  /\ \E events \in SeqsUpTo(MidiEvents, MaxEvents), timeDivision \in PPQNs :
       midi' = <<[doc |-> <<[typeof |-> "object", format |-> 1, trackCount |-> 1,
                             timeDivision |-> timeDivision,
                             chunks |-> <<[type |-> "MTrk", chunkLength |-> 0,
                                           events |-> events]>>]>>,
                  call |-> <<>>]>>
  /\ error' = ""
  /\ UNCHANGED <<pattern, dataBuffer, rebuilt, parsed, padInfo>>

\* The events of the tracks of the documents with two tracks: two notes
\* that differ in time, note and velocity, a Note On with velocity 0, a
\* Note Off, a track name and a control change.
ChunkEvents ==
  {NoteOn(1, "60", 100, 10),
   NoteOn(600, "61", 90, 10),
   NoteOn(1, "60", 0, 0),
   NoteOff(1, "60"),
   generateMetaStringEvent(3, "Track"),
   [deltaTime |-> 1, type |-> 176, channel |-> 0,
    data |-> [controllerNumber |-> 7, value |-> 100], label |-> "Control Change"]}

\* A MIDI document from elsewhere: two tracks of events.
LoadTracks ==
  /\ pattern = <<>>
  /\ midi = <<>>
  /\ \E first \in SeqsUpTo(ChunkEvents, MaxEvents), second \in SeqsUpTo(ChunkEvents, MaxEvents) :
       midi' = <<[doc |-> <<[typeof |-> "object", format |-> 1, trackCount |-> 2,
                             timeDivision |-> defaultPPQ,
                             chunks |-> <<[type |-> "MTrk", chunkLength |-> 0,
                                           events |-> first],
                                          [type |-> "MTrk", chunkLength |-> 0,
                                           events |-> second]>>]>>,
                  call |-> <<>>]>>
  /\ error' = ""
  /\ UNCHANGED <<pattern, dataBuffer, rebuilt, parsed, padInfo>>

\* The arguments of fromMidi for a document with two tracks, for both
\* revisions.
TracksArguments ==
  {[audioMIDI |-> midi[1].doc[1], noteMap |-> NoteToPad, patternPPQN |-> defaultPPQ] @@ o :
     o \in {<< >>, [og |-> TRUE]}}

\* The arguments of fromMidi for the document at hand: the note maps, both
\* PPQNs, both revisions (og absent is the current revision).
FromMidiArguments ==
  {[audioMIDI |-> midi[1].doc[1], noteMap |-> m, patternPPQN |-> p] @@ o :
     m \in {NoteToPad, NoteToPadPartial, NoteToPadMKii},
     p \in PPQNs,
     o \in {<< >>, [og |-> TRUE]}}

\* The arguments of fromMidi that take the document of toMidi back: the
\* inverse of the note map that toMidi was given.
RoundTripArguments ==
  {[audioMIDI |-> midi[1].doc[1],
    noteMap |-> Inverse(midi[1].call[1].noteMap),
    patternPPQN |-> p] @@ o :
     p \in PPQNs,
     o \in {<< >>, [og |-> TRUE]}}

\* The arguments of fromMidi with every combination of a document that is
\* missing, no object, or lacks timeDivision or chunks, a missing note map,
\* and a missing or zero PPQN.
FromMidiArgumentCases ==
  {a @@ m @@ p :
     a \in {[audioMIDI |-> midi[1].doc[1]],
            [audioMIDI |-> [typeof |-> "number"]],
            [audioMIDI |-> [typeof |-> "object", chunks |-> midi[1].doc[1].chunks]],
            [audioMIDI |-> [typeof |-> "object",
                            timeDivision |-> midi[1].doc[1].timeDivision]],
            << >>},
     m \in {[noteMap |-> NoteToPad], << >>},
     p \in {[patternPPQN |-> defaultPPQ], [patternPPQN |-> 0], << >>}}

\* AudioPattern.fromMidi(audioMIDI, noteMap, patternPPQN, og), with the
\* arguments drawn from the set arguments.  The document at hand has a
\* timeDivision that is a number.
FromMidiCall(arguments) ==
  /\ midi # <<>>
  /\ midi[1].doc # <<>>
  /\ midi[1].call # <<>> => Has(midi[1].call[1], "ppq") /\ Has(midi[1].call[1], "noteMap")
  /\ dataBuffer = <<>>
  /\ \E args \in arguments :
       /\ dataBuffer' = <<[result |-> FromMidi(args), args |-> args]>>
       /\ error' = dataBuffer'[1].result.error
       /\ midi' = IF Has(args, "audioMIDI") /\ args.audioMIDI = midi[1].doc[1]
                  THEN <<[midi[1] EXCEPT !.doc = <<FromMidiAudioMIDI(args.audioMIDI)>>]>>
                  ELSE midi
  /\ UNCHANGED <<pattern, rebuilt, parsed, padInfo>>

\* The values of bankSwitch of the records that are parsed: those that a
\* revision knows, their neighbours and the ends of the byte.
BankSwitches == {0, 1, 2, 63, 64, 65, 66, 128, 255}

\* The files that are parsed with the options of a revision: a file of one
\* record with any midiNote and a bankSwitch; and a file of some records,
\* the footer and up to 7 more bytes.
Files(options) ==
  {PatternFile(<<[ticks |-> 0, midiNote |-> n, bankSwitch |-> b, pitchMode |-> 0,
                  velocity |-> 100, unknown3 |-> 64, length |-> 0]>>, options) :
     n \in 0..255, b \in BankSwitches}
  \cup {PatternFile(records, options) \o [k \in 1..extra |-> 0] :
          records \in SeqsUpTo(NoteRecords, MaxNotes), extra \in 0..7}

\* new AudioPattern(file, options) on a file of any length.
ParseCall ==
  /\ parsed = <<>>
  /\ pattern = <<>>
  /\ midi = <<>>
  /\ \E options \in {OptionsMKii, OptionsOG} :
       \E file \in Files(options) :
         /\ parsed' = <<[data |-> file, options |-> options] @@ Construct(file, options)>>
         /\ error' = parsed'[1].error
  /\ UNCHANGED <<pattern, midi, dataBuffer, rebuilt, padInfo>>

\* new AudioPattern(new Uint8Array(dataBuffer.buffer), options)
Rebuild ==
  /\ dataBuffer # <<>>
  /\ dataBuffer[1].result.returned
  /\ rebuilt = <<>>
  /\ \E options \in {OptionsMKii, OptionsOG} :
       LET r == Construct(ToBytes(dataBuffer[1].result.buffer), options)
       IN  /\ rebuilt' = <<[this |-> r.this, options |-> options, error |-> r.error]>>
           /\ error' = r.error
  /\ UNCHANGED <<pattern, midi, dataBuffer, parsed, padInfo>>

\* The indexes given to getPadLabel: those of the pads and their neighbours.
PadIndexes == (0 - 2)..122

\* Labels given to getPadIndex that are not the label of a pad.
OtherLabels == {"", "A0", "A13", "K1", "a13", "1A", "J"}

\* AudioPadInfo.getPadLabel(index)
GetPadLabelCall ==
  /\ padInfo = <<>>
  /\ \E index \in {<<>>} \cup {<<i>> : i \in PadIndexes} :
       padInfo' = <<[call |-> "getPadLabel", index |-> index, label |-> getPadLabel(index)]>>
  /\ error' = ""
  /\ UNCHANGED <<pattern, midi, dataBuffer, rebuilt, parsed>>

\* AudioPadInfo.getPadIndex(label): of the label that getPadLabel returned
\* for the index of, in upper and in lower case, or of a label from
\* elsewhere.
GetPadIndexCall ==
  /\ \/ /\ padInfo = <<>>
        /\ \E label \in {<<>>} \cup {<<l>> : l \in OtherLabels} :
             padInfo' = <<[call |-> "getPadIndex", label |-> label, of |-> <<>>,
                           index |-> getPadIndex(label)]>>
     \/ /\ padInfo # <<>>
        /\ padInfo[1].call = "getPadLabel"
        /\ \E label \in {padInfo[1].label} \cup
                        {LowerCaseLabels[i] : i \in {j \in 1..120 : PadLabels[j] = padInfo[1].label}} :
             padInfo' = <<[call |-> "getPadIndex", label |-> <<label>>, of |-> padInfo[1].index,
                           index |-> getPadIndex(<<label>>)]>>
  /\ error' = ""
  /\ UNCHANGED <<pattern, midi, dataBuffer, rebuilt, parsed>>

\* The arguments of encodePad with a volume, channels and tempo mode that
\* are given or not, valid or not (not an integer, out of range, a string
\* that is no name), and a format.
EncodePadArgumentCases ==
  {v @@ c @@ t @@ f :
     v \in {<< >>} \cup
           {[volume |-> x] : x \in {Integer(0), Integer(87), Integer(127), Integer(0 - 1),
                                    Integer(128), Integer(255), Number(5, 1), String("127")}},
     c \in {<< >>} \cup
           {[channels |-> x] : x \in {Integer(1), Integer(2), String("Mono"), String("Stereo"),
                                      Integer(0 - 1), Integer(0), Integer(3), Number(5, 1),
                                      String("mono")}},
     t \in {<< >>} \cup
           {[tempoMode |-> x] : x \in {Integer(0), Integer(1), Integer(2), String("Off"),
                                       String("Pattern"), String("User"), Integer(0 - 1),
                                       Integer(3), Number(1, 5), String("off")}},
     f \in {<< >>, [format |-> String("AIFF")]}}

\* AudioPadInfo.encodePad(data), with data drawn from the set arguments.
EncodePadCall(arguments) ==
  /\ padInfo = <<>>
  /\ \E data \in arguments :
       /\ padInfo' = <<[call |-> "encodePad", data |-> data] @@ encodePad(data)>>
       /\ error' = padInfo'[1].error
  /\ UNCHANGED <<pattern, midi, dataBuffer, rebuilt, parsed>>

\* The descriptions of a pad with every field given and valid: the default
\* of every field and other values of it.
PadDescriptions ==
  {[originalSampleStart |-> Integer(512), originalSampleEnd |-> Integer(oe),
    userSampleStart |-> Integer(512), userSampleEnd |-> Integer(ue),
    volume |-> Integer(v), lofi |-> Boolean(lofi), loop |-> Boolean(loop),
    gate |-> Boolean(gate), reverse |-> Boolean(reverse), format |-> String(f),
    channels |-> c, tempoMode |-> t, originalTempo |-> ot, userTempo |-> Integer(120)] :
     oe \in {512, 385388}, ue \in {512, 53424}, v \in {0, 87, 127},
     lofi \in BOOLEAN, loop \in BOOLEAN, gate \in BOOLEAN, reverse \in BOOLEAN,
     f \in {"WAVE", "AIFF"},
     c \in {Integer(1), Integer(2), String("Mono"), String("Stereo")},
     t \in {Integer(0), Integer(1), Integer(2), String("Off"), String("Pattern"), String("User")},
     ot \in {Integer(120), Number(109, 9)}}

\* AudioPadInfo.fromFile(pad).pads, of the buffer that encodePad returned.
FromFileOfPad ==
  /\ padInfo # <<>>
  /\ padInfo[1].call = "encodePad"
  /\ padInfo[1].pad # <<>>
  /\ padInfo' = <<[call |-> "fromFile", file |-> padInfo[1].pad[1], of |-> <<padInfo[1].data>>,
                   pads |-> fromFile(padInfo[1].pad[1])]>>
  /\ error' = ""
  /\ UNCHANGED <<pattern, midi, dataBuffer, rebuilt, parsed>>

\* The pads given to checkDefault: the default pad with one or two fields
\* set to another value (or to the same), and pads that lack fields.
CheckDefaultPads ==
  LET values == {Integer(0), Integer(2), Integer(120), Integer(127), Integer(512),
                 Number(109, 9), Boolean(TRUE), Boolean(FALSE), String("AIFF"),
                 String("Stereo"), String("Off")}
  IN  {[[PadDefaults EXCEPT ![f] = v] EXCEPT ![g] = w] :
         f \in DOMAIN PadDefaults, g \in DOMAIN PadDefaults, v \in values, w \in values}
      \cup {[f \in DOMAIN PadDefaults \ less |-> PadDefaults[f]] :
              less \in {{"volume"}, {"userSampleEnd"}, {"format", "channels"},
                        {"volume", "lofi", "loop", "gate", "reverse", "format", "channels",
                         "tempoMode", "originalTempo", "userTempo"}}}

\* AudioPadInfo.checkDefault(pad, strict)
CheckDefaultCall ==
  /\ padInfo = <<>>
  /\ \E pad \in {<<>>} \cup {<<p>> : p \in CheckDefaultPads}, strict \in {<<>>, <<FALSE>>, <<TRUE>>} :
       padInfo' = <<[call |-> "checkDefault", pad |-> pad, strict |-> strict,
                     result |-> checkDefault(pad, strict)]>>
  /\ error' = ""
  /\ UNCHANGED <<pattern, midi, dataBuffer, rebuilt, parsed>>

\* The record of 32 bytes of a pad in use with the volume, the four flags,
\* the format, the channels and the tempo mode given as bytes.
RawPad(volume, lofi, loop, gate, reverse, format, channels, tempoMode) ==
  <<0, 0, 2, 0,  0, 5, 225, 108,  0, 0, 2, 0,  0, 5, 225, 108,
    volume, lofi, loop, gate, reverse, format, channels, tempoMode,
    0, 0, 4, 75,  0, 0, 4, 75>>

\* The files that are parsed: one record with any of the usual and unusual
\* bytes; up to MaxPads records that differ; and 121 default records, one
\* more than there are pads.
PadFiles ==
  LET bytes == {0, 1, 2, 3, 255}
      some == {RawPad(87, 0, 0, 0, 1, 1, 2, 0), RawPad(255, 255, 255, 255, 255, 255, 255, 255),
               RawPad(87, 1, 1, 1, 1, 0, 1, 1), RawPad(127, 2, 0, 1, 0, 2, 0, 3)}
  IN  {RawPad(v, l, 0, g, 1, f, c, t) :
         v \in {87, 255}, l \in bytes, g \in bytes, f \in bytes, c \in bytes, t \in bytes}
      \cup {Flatten(records) : records \in SeqsUpTo(some, MaxPads)}
      \cup {Flatten([i \in 1..121 |-> WritePad(PadDefaults)])}

\* AudioPadInfo.fromFile(data).pads, of a file of whole records.
FromFileCall ==
  /\ padInfo = <<>>
  /\ \E file \in PadFiles :
       padInfo' = <<[call |-> "fromFile", file |-> file, of |-> <<>>, pads |-> fromFile(file)]>>
  /\ error' = ""
  /\ UNCHANGED <<pattern, midi, dataBuffer, rebuilt, parsed>>

\* pattern.getUsedPads()
GetUsedPadsCall ==
  /\ pattern # <<>>
  /\ ~Has(pattern[1], "usedPads")
  /\ pattern' = <<pattern[1] @@ [usedPads |-> getUsedPads(pattern[1].this)]>>
  /\ error' = ""
  /\ UNCHANGED <<midi, dataBuffer, rebuilt, parsed, padInfo>>

\* pattern.parse(options), with the options of the construction, on the
\* instance that was constructed; before is the instance before the call.
ParseAgainCall ==
  /\ pattern # <<>>
  /\ ~Has(pattern[1], "before")
  /\ pattern' = <<[before |-> pattern[1].this]
                   @@ [pattern[1] EXCEPT !.this = Parse(pattern[1].this, pattern[1].options).this]>>
  /\ error' = Parse(pattern[1].this, pattern[1].options).error
  /\ UNCHANGED <<midi, dataBuffer, rebuilt, parsed, padInfo>>

Next ==
  \/ New
  \/ ParseCall
  \/ GetUsedPadsCall
  \/ ParseAgainCall
  \/ ToMidiAgainCall
  \/ ToMidiCall(ToMidiArgumentCases \cup ToMidiTempoArguments \cup ToMidiRestArguments)
  \/ Load
  \/ LoadTracks
  \/ FromMidiCall(FromMidiArguments \cup FromMidiArgumentCases)
  \/ Rebuild
  \/ GetPadLabelCall
  \/ GetPadIndexCall
  \/ EncodePadCall(EncodePadArgumentCases \cup PadDescriptions)
  \/ FromFileOfPad
  \/ CheckDefaultCall
  \/ FromFileCall

Spec == Init /\ [][Next]_vars

\* A MIDI document is loaded and converted to a pattern.
NextFromMidi ==
  \/ Load
  \/ FromMidiCall(FromMidiArguments)

SpecFromMidi == Init /\ [][NextFromMidi]_vars

\* A MIDI document of two tracks is loaded and converted to a pattern.
NextFromMidiTracks ==
  \/ LoadTracks
  \/ FromMidiCall(TracksArguments)

SpecFromMidiTracks == Init /\ [][NextFromMidiTracks]_vars

\* Files of any length are parsed.
NextParse == ParseCall

SpecParse == Init /\ [][NextParse]_vars

\* fromMidi is called with arguments that are missing or malformed.
NextFromMidiArguments ==
  \/ Load
  \/ FromMidiCall(FromMidiArgumentCases)

SpecFromMidiArguments == Init /\ [][NextFromMidiArguments]_vars

\* toMidi is called with and without its arguments.
NextToMidiArguments ==
  \/ New
  \/ ToMidiCall(ToMidiArgumentCases)

SpecToMidiArguments == Init /\ [][NextToMidiArguments]_vars

\* A pattern is converted to MIDI.
NextToMidi ==
  \/ New
  \/ ToMidiCall(ToMidiTempoArguments)

SpecToMidi == Init /\ [][NextToMidi]_vars

\* A pattern is converted to MIDI and back, and the result is parsed.
NextRoundTrip ==
  \/ New
  \/ ToMidiCall(ToMidiArguments)
  \/ FromMidiCall(RoundTripArguments)
  \/ Rebuild

SpecRoundTrip == Init /\ [][NextRoundTrip]_vars

\* The labels and indexes of the pads are converted.
NextPadLabel ==
  \/ GetPadLabelCall
  \/ GetPadIndexCall

SpecPadLabel == Init /\ [][NextPadLabel]_vars

\* encodePad is called with fields that are valid or not.
NextEncodePad == EncodePadCall(EncodePadArgumentCases)

SpecEncodePad == Init /\ [][NextEncodePad]_vars

\* A pad is encoded, from a description or from nothing, and decoded.
NextPadRoundTrip ==
  \/ EncodePadCall(PadDescriptions \cup {<< >>})
  \/ FromFileOfPad

SpecPadRoundTrip == Init /\ [][NextPadRoundTrip]_vars

\* Pads are checked for the default values.
NextCheckDefault == CheckDefaultCall

SpecCheckDefault == Init /\ [][NextCheckDefault]_vars

\* Files of pad records are parsed.
NextPadParse == FromFileCall

SpecPadParse == Init /\ [][NextPadParse]_vars

\* The pads of a pattern are listed and the pattern is converted to MIDI
\* with a note map that has every pad of it.
NextToMidiRests ==
  \/ New
  \/ GetUsedPadsCall
  \/ ToMidiCall(ToMidiRestArguments)

SpecToMidiRests == Init /\ [][NextToMidiRests]_vars

\* A pattern is constructed and parsed again.
NextParseAgain ==
  \/ New
  \/ ParseAgainCall

SpecParseAgain == Init /\ [][NextParseAgain]_vars

\* A pattern is converted to MIDI twice, and the document is converted to
\* a pattern.
NextFrame ==
  \/ New
  \/ ToMidiCall(ToMidiTempoArguments)
  \/ ToMidiAgainCall
  \/ FromMidiCall(RoundTripArguments)

SpecFrame == Init /\ [][NextFrame]_vars

(***************************************************************************)
(* The pattern that a call of fromMidi wrote.                              *)
(***************************************************************************)
\* The call of fromMidi returned a buffer.
Returned == dataBuffer # <<>> /\ dataBuffer[1].result.returned

\* The k-th record of a buffer, with the values as they were written.
RecordAt(buffer, k) ==
  LET o == 8 * (k - 1)
  IN  [ticks |-> buffer[o + 1], midiNote |-> buffer[o + 2], bankSwitch |-> buffer[o + 3],
       velocity |-> buffer[o + 5], length |-> buffer[o + 7] + (256 * buffer[o + 8])]

\* The number of records before the 16 bytes of the footer.
RecordCount(buffer) == (Len(buffer) - 16) \div 8

\* The k-th byte of the footer, counted from 0, in the bytes of the file.
FooterByte(buffer, k) == ToBytes(buffer)[(Len(buffer) - 16) + (k + 1)]

IsRest(r) == r.midiNote = 128 /\ r.bankSwitch = 0 /\ r.velocity = 0 /\ r.length = 0

\* The records lo..hi are rests of 1 to 255 ticks each.
AreRests(buffer, lo, hi) ==
  \A k \in lo..hi : IsRest(RecordAt(buffer, k)) /\ RecordAt(buffer, k).ticks \in 1..255

\* The sum of the ticks of the records lo..hi.
RECURSIVE SumTicks(_, _, _)
SumTicks(buffer, lo, hi) ==
  IF lo > hi THEN 0
  ELSE IF lo = hi THEN RecordAt(buffer, lo).ticks
  ELSE SumTicks(buffer, lo, (lo + hi) \div 2) + SumTicks(buffer, ((lo + hi) \div 2) + 1, hi)

\* The index of the i-th record that is a note, among the records 1..n.
NthNote(buffer, n, i) ==
  LET notes == {k \in 1..n : RecordAt(buffer, k).midiNote # 128}
  IN  CHOOSE k \in notes : Cardinality({j \in notes : j <= k}) = i

\* The time between the events i - 1 and i of a call, in pattern ticks.
ScaledDifference(args, i) ==
  LET events == AllEvents(args.audioMIDI)
  IN  Round((events[i].absoluteTime - events[i - 1].absoluteTime) * args.patternPPQN,
            args.audioMIDI.timeDivision)

\* C2: for two consecutive Note-On events whose scaled time difference G is
\* more than 255 pattern ticks, at any position, the records between the two
\* notes are rests (midiNote 128, bankSwitch 0, velocity 0, length 0) of 1 to
\* 255 ticks each, and their ticks sum to G.
GapSplitting ==
  Returned =>
    LET args == dataBuffer[1].args
        buffer == dataBuffer[1].result.buffer
        n == dataBuffer[1].result.noteBytes \div 8
    IN  \A i \in 2..Len(AllEvents(args.audioMIDI)) :
          ScaledDifference(args, i) > 255 =>
            LET first == NthNote(buffer, n, i - 1)
                second == NthNote(buffer, n, i)
            IN  /\ AreRests(buffer, first + 1, second - 1)
                /\ SumTicks(buffer, first + 1, second - 1) = ScaledDifference(args, i)

\* C3: the value written to the ticks field of every record, note or rest,
\* is within 0..255.
TicksFitOneByte ==
  Returned =>
    \A k \in 1..RecordCount(dataBuffer[1].result.buffer) :
      RecordAt(dataBuffer[1].result.buffer, k).ticks \in 0..255

\* C4: the bar count that fromMidi computes and writes to the footer is at
\* most 64.
BarCap ==
  Returned =>
    /\ dataBuffer[1].result.bars <= maxBars
    /\ FooterByte(dataBuffer[1].result.buffer, 8) <= maxBars
    /\ FooterByte(dataBuffer[1].result.buffer, 14) <= maxBars

ZeroTimeSingleNote ==
  (/\ Returned
   /\ Len(AllEvents(dataBuffer[1].args.audioMIDI)) = 1
   /\ AllEvents(dataBuffer[1].args.audioMIDI)[1].absoluteTime = 0) =>
    LET buffer == dataBuffer[1].result.buffer
    IN  /\ AreRests(buffer, 2, RecordCount(buffer))
        /\ SumTicks(buffer, 2, RecordCount(buffer)) = dataBuffer[1].args.patternPPQN * 4
        /\ dataBuffer[1].result.bars = 1

\* The revision that a call of fromMidi writes for.
IsOG(args) == Has(args, "og") /\ args.og

\* The bytes 9, 13 and 15 of the footer are those of the revision.
FooterConstants(buffer, og) ==
  /\ Len(buffer) >= 16
  /\ (Len(buffer) - 16) % 8 = 0
  /\ FooterByte(buffer, 9) = (IF og THEN 2 ELSE 0)
  /\ FooterByte(buffer, 13) = (IF og THEN 0 ELSE 128)
  /\ FooterByte(buffer, 15) = (IF og THEN 0 ELSE 1)

UnmappedEvents(args) ==
  LET events == AllEvents(args.audioMIDI)
      table == IF IsOG(args) THEN defaultMapOG ELSE defaultMap
  IN  {i \in 1..Len(events) :
         \/ ~Has(args.noteMap, events[i].note)
         \/ ~Has(table, args.noteMap[events[i].note])}

\* C8: a Note-On whose note is not mapped raises no error and writes no
\* record: the call returns a buffer with a record for every other note
\* and a footer.
UnmappedNoteIsSkipped ==
  (dataBuffer # <<>> /\ UnmappedEvents(dataBuffer[1].args) # {}) =>
    /\ dataBuffer[1].result.error = ""
    /\ dataBuffer[1].result.returned
    /\ LET buffer == dataBuffer[1].result.buffer
           n == RecordCount(buffer)
       IN  Cardinality({k \in 1..n : RecordAt(buffer, k).midiNote # 128})
             = Len(AllEvents(dataBuffer[1].args.audioMIDI))
                 - Cardinality(UnmappedEvents(dataBuffer[1].args))


(***************************************************************************)
(* The arguments of fromMidi and toMidi.                                   *)
(***************************************************************************)
\* The audioMIDI of the arguments is missing, no object, or lacks
\* timeDivision or chunks.
NoAudioMIDI(args) ==
  \/ ~Has(args, "audioMIDI")
  \/ args.audioMIDI.typeof # "object"
  \/ ~Has(args.audioMIDI, "timeDivision")
  \/ ~Has(args.audioMIDI, "chunks")

NoNoteMap(args) == ~Has(args, "noteMap")

NoPatternPPQN(args) == ~Has(args, "patternPPQN") \/ args.patternPPQN = 0

\* C9: an audioMIDI that is missing, no object, or lacks timeDivision or
\* chunks, a missing noteMap, and a missing or zero patternPPQN each raise
\* an error, the first of them in that order; the buffer is not created and
\* nothing is returned.
ArgumentValidation ==
  dataBuffer # <<>> =>
    LET args == dataBuffer[1].args
        result == dataBuffer[1].result
    IN  /\ NoAudioMIDI(args) =>
             result.error = "No audioMIDI provided, please provide an AudioMIDI instance."
        /\ (~NoAudioMIDI(args) /\ NoNoteMap(args)) =>
             result.error = "No noteMap provided, please provide a mapping of MIDI notes to pads."
        /\ (~NoAudioMIDI(args) /\ ~NoNoteMap(args) /\ NoPatternPPQN(args)) =>
             result.error = "No patternPPQN provided, please provide a PPQN for the pattern: OG is 96, MKii is 480."
        /\ (NoAudioMIDI(args) \/ NoNoteMap(args) \/ NoPatternPPQN(args)) =>
             /\ error = result.error
             /\ ~result.created
             /\ ~result.returned
             /\ result.buffer = <<>>

\* A call without an audioMIDI and without a noteMap raised the error of the
\* audioMIDI.
ArgumentValidationFirstOfTwo ==
  /\ dataBuffer # <<>>
  /\ NoAudioMIDI(dataBuffer[1].args)
  /\ NoNoteMap(dataBuffer[1].args)
  /\ error = "No audioMIDI provided, please provide an AudioMIDI instance."
  /\ ~dataBuffer[1].result.created

\* C10: a call of toMidi without a note map or without a ppq raises an
\* error and returns no document, for every pattern.
ToMidiRequiresArguments ==
  (/\ midi # <<>>
   /\ midi[1].call # <<>>
   /\ (~Has(midi[1].call[1], "noteMap") \/ ~Has(midi[1].call[1], "ppq"))) =>
    /\ error # ""
    /\ midi[1].doc = <<>>

(***************************************************************************)
(* The round trip of a pattern through toMidi and fromMidi.                *)
(***************************************************************************)
\* What the round trip compares of a note.
NoteTuple(note) ==
  [padLabel |-> note.padLabel, ticks |-> note.ticks, velocity |-> note.velocity,
   length |-> note.length]

\* The number of the notes of a sequence that have the tuple t.
Count(notes, t) == Cardinality({k \in 1..Len(notes) : NoteTuple(notes[k]) = t})

\* Two sequences of notes have the same multiset of tuples.
SameNotes(a, b) ==
  \A t \in {NoteTuple(a[k]) : k \in 1..Len(a)} \cup {NoteTuple(b[k]) : k \in 1..Len(b)} :
    Count(a, t) = Count(b, t)

\* The notes of a sequence that are no rests.
WithoutRests(notes) == SelectSeq(notes, LAMBDA note : note.midiNote # 128)

\* The note map of toMidi gives every note of the pattern a nonzero MIDI
\* note, and no two of its pads the same one.
MapsNotes(noteMap, notes) ==
  /\ \A k \in 1..Len(notes) :
       Has(noteMap, notes[k].padLabel) /\ noteMap[notes[k].padLabel] # 0
  /\ \A p, q \in DOMAIN noteMap : noteMap[p] = noteMap[q] => p = q

\* C1: for a pattern whose notes all have velocity > 0 and pads that an
\* injective note map gives nonzero MIDI notes, the pattern parsed from
\* fromMidi(toMidi(P), inverse map, same PPQN), for the same revision, has
\* the same multiset of (padLabel, ticks, velocity, length) as P.  The
\* rests that fromMidi writes to fill the last bar are left out of the
\* comparison.
RoundTrip ==
  (/\ rebuilt # <<>>
   /\ \A k \in 1..Len(pattern[1].this.notes) : pattern[1].this.notes[k].velocity > 0
   /\ MapsNotes(midi[1].call[1].noteMap, pattern[1].this.notes)
   /\ dataBuffer[1].args.patternPPQN = midi[1].call[1].ppq
   /\ IsOG(dataBuffer[1].args) = pattern[1].options.og
   /\ rebuilt[1].options = pattern[1].options) =>
    /\ rebuilt[1].error = ""
    /\ SameNotes(WithoutRests(rebuilt[1].this.notes), pattern[1].this.notes)


(***************************************************************************)
(* The document that a call of toMidi returned.                            *)
(***************************************************************************)
\* toMidi was called with a note map and returned a document.
ToMidiReturned ==
  /\ midi # <<>>
  /\ midi[1].call # <<>>
  /\ Has(midi[1].call[1], "noteMap")
  /\ midi[1].doc # <<>>

\* The events of the track of a document with one track.
TrackEvents(doc) == doc.chunks[1].events

\* The Note On events and the events of notes among events, in their order.
NoteOns(events) == SelectSeq(events, LAMBDA e : e.type = 144)

NoteOnsAndOffs(events) == SelectSeq(events, LAMBDA e : e.type = 144 \/ e.type = 128)

\* The notes of a pattern whose pad label has an entry in the note map.
NotesWithEntry(notes, noteMap) == SelectSeq(notes, LAMBDA note : Has(noteMap, note.padLabel))

\* C11: toMidi raises no error, and the Note On events of the track are
\* those of the notes whose pad label has an entry in the note map, one for
\* each, with type 0x90, channel 0, the velocity of the note and the MIDI
\* note number of the entry, whatever that number is.
ToMidiMapping ==
  (pattern # <<>> /\ midi # <<>> /\ midi[1].call # <<>> /\ Has(midi[1].call[1], "noteMap")) =>
    /\ error = ""
    /\ midi[1].doc # <<>>
    /\ LET noteMap == midi[1].call[1].noteMap
           entries == NotesWithEntry(pattern[1].this.notes, noteMap)
           noteOns == NoteOns(TrackEvents(midi[1].doc[1]))
       IN  /\ Len(noteOns) = Len(entries)
           /\ \A k \in 1..Len(entries) :
                /\ noteOns[k].channel = 0
                /\ noteOns[k].data.velocity = entries[k].velocity
                /\ noteOns[k].data.note = ToString(noteMap[entries[k].padLabel])


\* The indices of the notes for which toMidi pushes a Note On.
EmittedNotes(notes, noteMap) ==
  {k \in 1..Len(notes) : Has(noteMap, notes[k].padLabel) /\ noteMap[notes[k].padLabel] # 0}

\* The i-th of a set of indices.
Nth(indices, i) == CHOOSE k \in indices : Cardinality({j \in indices : j <= k}) = i

\* The sum of the ticks of the notes 1..k.
RECURSIVE TicksUpTo(_, _)
TicksUpTo(notes, k) == IF k = 0 THEN 0 ELSE TicksUpTo(notes, k - 1) + notes[k].ticks

\* C12: the absolute time of each Note On of the track is the sum of the
\* ticks of the records of the pattern up to and including its note, the
\* records that toMidi skipped among them.
ToMidiAbsoluteTime ==
  ToMidiReturned =>
    LET notes == pattern[1].this.notes
        emitted == EmittedNotes(notes, midi[1].call[1].noteMap)
        noteOns == NoteOns(TrackEvents(midi[1].doc[1]))
    IN  /\ Len(noteOns) = Cardinality(emitted)
        /\ \A i \in 1..Len(noteOns) :
             noteOns[i].absoluteTime = TicksUpTo(notes, Nth(emitted, i))

\* A note after a rest of some ticks got the ticks of both.
ToMidiAbsoluteTimeAfterRest ==
  /\ ToMidiReturned
  /\ Len(pattern[1].this.notes) = 2
  /\ pattern[1].this.notes[1].midiNote = 128
  /\ pattern[1].this.notes[1].ticks > 0
  /\ pattern[1].this.notes[2].ticks > 0
  /\ Len(NoteOns(TrackEvents(midi[1].doc[1]))) = 1
  /\ NoteOns(TrackEvents(midi[1].doc[1]))[1].absoluteTime
       = pattern[1].this.notes[1].ticks + pattern[1].this.notes[2].ticks


\* The absolute time of the note k of a pattern.
NoteTime(notes, k) == TicksUpTo(notes, k)

\* The event is the Note Off of the note k: type 0x80, the note number of
\* the entry, velocity 0, at the time of the note plus its length.
IsNoteOffOf(e, notes, k, noteMap) ==
  /\ e.type = 128
  /\ e.data.note = ToString(noteMap[notes[k].padLabel])
  /\ e.data.velocity = 0
  /\ e.absoluteTime = NoteTime(notes, k) + notes[k].length

IsNoteOnOf(e, notes, k, noteMap) ==
  /\ e.type = 144
  /\ e.data.note = ToString(noteMap[notes[k].padLabel])
  /\ e.absoluteTime = NoteTime(notes, k)

\* C13: a note that toMidi maps has a Note Off (type 0x80, the same note
\* number, velocity 0) at its absolute time plus its length if and only if
\* its length is more than 0, and every Note Off of the track comes after
\* the Note On of its note.
ToMidiNoteOffPairing ==
  ToMidiReturned =>
    LET notes == pattern[1].this.notes
        noteMap == midi[1].call[1].noteMap
        emitted == EmittedNotes(notes, noteMap)
        events == TrackEvents(midi[1].doc[1])
        offs == {q \in 1..Len(events) : events[q].type = 128}
    IN  /\ Cardinality(offs) = Cardinality({k \in emitted : notes[k].length > 0})
        /\ \A k \in emitted :
             notes[k].length > 0 =>
               \E q \in offs : IsNoteOffOf(events[q], notes, k, noteMap)
        /\ \A q \in offs :
             \E k \in emitted :
               /\ notes[k].length > 0
               /\ IsNoteOffOf(events[q], notes, k, noteMap)
               /\ \E p \in 1..(q - 1) : IsNoteOnOf(events[p], notes, k, noteMap)

\* A note with a length and a note without one at the same time: two Note
\* On events and then the one Note Off.
ToMidiOneNoteOff ==
  /\ ToMidiReturned
  /\ Len(pattern[1].this.notes) = 2
  /\ pattern[1].this.notes[1].length > 0
  /\ pattern[1].this.notes[2].length = 0
  /\ LET events == NoteOnsAndOffs(TrackEvents(midi[1].doc[1]))
     IN  /\ Len(events) = 3
         /\ events[1].type = 144
         /\ events[2].type = 144
         /\ events[3].type = 128


\* The sum of the delta times of the events 1..k.
RECURSIVE DeltaTimeUpTo(_, _)
DeltaTimeUpTo(events, k) ==
  IF k = 0 THEN 0 ELSE DeltaTimeUpTo(events, k - 1) + events[k].deltaTime

\* C14: the note events of the track are in nondecreasing order of absolute
\* time; the deltaTime of each is its absolute time minus that of the note
\* event before it (0 for the first) and is not negative; the sum of the
\* delta times up to an event is its absolute time.
ToMidiDeltaTimes ==
  ToMidiReturned =>
    LET events == NoteOnsAndOffs(TrackEvents(midi[1].doc[1]))
    IN  \A k \in 1..Len(events) :
          /\ k > 1 => events[k - 1].absoluteTime <= events[k].absoluteTime
          /\ events[k].deltaTime
               = events[k].absoluteTime - (IF k = 1 THEN 0 ELSE events[k - 1].absoluteTime)
          /\ events[k].deltaTime >= 0
          /\ DeltaTimeUpTo(events, k) = events[k].absoluteTime

\* Two notes with a length at the same time: the Note Off of the first was
\* pushed before the Note On of the second and comes after it in the track.
ToMidiSortedNoteOff ==
  /\ ToMidiReturned
  /\ Len(pattern[1].this.notes) = 2
  /\ pattern[1].this.notes[1].length > 0
  /\ pattern[1].this.notes[2].ticks = 0
  /\ LET events == NoteOnsAndOffs(TrackEvents(midi[1].doc[1]))
     IN  /\ Len(events) = 4
         /\ events[2].type = 144
         /\ events[3].type = 128
         /\ events[3].deltaTime > 0


\* The parts of the track of a document that do not depend on the tempo:
\* one track, trackCount 1, the timeDivision given as ppq; after the first
\* before events a track name, then note events only, then End of Track.
TrackAfter(doc, ppq, before) ==
  LET events == TrackEvents(doc)
  IN  /\ Len(doc.chunks) = 1
      /\ doc.trackCount = 1
      /\ doc.timeDivision = ppq
      /\ Len(events) >= before + 2
      /\ events[before + 1].type = 255 /\ events[before + 1].metaType = 3
      /\ \A k \in (before + 2)..(Len(events) - 1) :
           events[k].type = 144 \/ events[k].type = 128
      /\ events[Len(events)].type = 255 /\ events[Len(events)].metaType = 47

\* The track starts with a Set Tempo event if tempo, and has none if not.
TrackTempo(doc, tempo) ==
  LET events == TrackEvents(doc)
  IN  /\ tempo => events[1].type = 255 /\ events[1].metaType = 81
      /\ \A k \in 1..Len(events) :
           (events[k].type = 255 /\ events[k].metaType = 81) => (tempo /\ k = 1)

TrueNoteOns(doc) ==
  UNION {{<<t, i>> : i \in {j \in 1..Len(doc.chunks[t].events) :
                              LET e == doc.chunks[t].events[j]
                              IN  /\ e.type = 144
                                  /\ Has(e.data, "velocity")
                                  /\ e.data.velocity > 0}} :
           t \in 1..Len(doc.chunks)}

\* The absolute time of an event of a track: the sum of the delta times of
\* the track up to it.
EventTime(doc, x) == DeltaTimeUpTo(doc.chunks[x[1]].events, x[2])

\* The order of the events of a document by time, then track, then index.
IsBefore(doc, x, y) ==
  \/ EventTime(doc, x) < EventTime(doc, y)
  \/ /\ EventTime(doc, x) = EventTime(doc, y)
     /\ (x[1] < y[1] \/ (x[1] = y[1] /\ x[2] < y[2]))

\* C16: the records of the output that are no rests are as many as the Note
\* On events with velocity > 0 of all the tracks, and the record at the
\* place that an event has in the order of absolute time (each track's time
\* counted from its own delta times) has the pad and the velocity of that
\* event; no other event has a record.
FromMidiNoteExtraction ==
  Returned =>
    LET args == dataBuffer[1].args
        doc == args.audioMIDI
        buffer == dataBuffer[1].result.buffer
        n == RecordCount(buffer)
        table == IF IsOG(args) THEN defaultMapOG ELSE defaultMap
        expected == TrueNoteOns(doc)
    IN  /\ Cardinality({k \in 1..n : RecordAt(buffer, k).midiNote # 128}) = Cardinality(expected)
        /\ \A x \in expected :
             LET e == doc.chunks[x[1]].events[x[2]]
                 place == Cardinality({y \in expected : IsBefore(doc, y, x)}) + 1
                 record == RecordAt(buffer, NthNote(buffer, n, place))
             IN  /\ record.midiNote = table[args.noteMap[e.data.note]].midiNote
                 /\ record.bankSwitch = table[args.noteMap[e.data.note]].bankSwitch
                 /\ record.velocity = e.data.velocity

\* The note of the second track is earlier than the note of the first
\* track, and its record is the first.
FromMidiSecondTrackFirst ==
  /\ Returned
  /\ Len(dataBuffer[1].args.audioMIDI.chunks) = 2
  /\ LET doc == dataBuffer[1].args.audioMIDI
         buffer == dataBuffer[1].result.buffer
     IN  /\ TrueNoteOns(doc) = {<<1, 2>>, <<2, 2>>}
         /\ EventTime(doc, <<2, 2>>) < EventTime(doc, <<1, 2>>)
         /\ doc.chunks[1].events[1].type # 144
         /\ RecordAt(buffer, NthNote(buffer, RecordCount(buffer), 1)).velocity
              = doc.chunks[2].events[2].data.velocity
         /\ RecordAt(buffer, NthNote(buffer, RecordCount(buffer), 2)).velocity
              = doc.chunks[1].events[2].data.velocity
         /\ doc.chunks[1].events[2].data.velocity # doc.chunks[2].events[2].data.velocity


(***************************************************************************)
(* What parse makes of a file.                                             *)
(***************************************************************************)
\* C17: for a file of 16 bytes or more, whether or not their number is a
\* multiple of 8, parse raises no error, yields floor(bytes / 8) - 2 notes,
\* the k-th from the k-th record of the file, and has read the 16 bytes
\* after them as the footer, within the data.
ParseRecordCount ==
  (parsed # <<>> /\ Len(parsed[1].data) >= 16) =>
    LET data == parsed[1].data
        this == parsed[1].this
        count == (Len(data) \div 8) - 2
    IN  /\ parsed[1].error = ""
        /\ Len(this.notes) = count
        /\ \A k \in 1..Len(this.notes) :
             /\ this.notes[k].ticks = data[(8 * (k - 1)) + 1]
             /\ this.notes[k].midiNote = data[(8 * (k - 1)) + 2]
             /\ this.notes[k].velocity = data[(8 * (k - 1)) + 5]
        /\ this.offset = (8 * count) + 16
        /\ this.offset <= Len(data)


\* The notes of the file that was parsed.
ParsedNotes == parsed[1].this.notes

\* C18: on the legacy revision bankSwitch 0 gives sampleNumber
\* midiNote - 46 and bankSwitch 64 gives midiNote - 46 + 5 * padsPerBank;
\* on the current revision bankSwitch 0 or 64 gives midiNote - 46 and
\* bankSwitch 1 or 65 gives midiNote - 46 + 5 * padsPerBank; midiNote 63
\* with bankSwitch 64 and 16 pads per bank on the current revision gives
\* sampleNumber 17 and pad label B1.
SampleNumberDerivation ==
  parsed # <<>> =>
    \A k \in 1..Len(ParsedNotes) :
      LET note == ParsedNotes[k]
          og == parsed[1].options.og
          padsPerBank == parsed[1].options.padsPerBank
      IN  /\ (og /\ note.bankSwitch = 0) => note.sampleNumber = note.midiNote - 46
          /\ (og /\ note.bankSwitch = 64) =>
               note.sampleNumber = (note.midiNote - 46) + (5 * padsPerBank)
          /\ (~og /\ note.bankSwitch \in {0, 64}) => note.sampleNumber = note.midiNote - 46
          /\ (~og /\ note.bankSwitch \in {1, 65}) =>
               note.sampleNumber = (note.midiNote - 46) + (5 * padsPerBank)
          /\ (~og /\ note.midiNote = 63 /\ note.bankSwitch = 64 /\ padsPerBank = 16) =>
               (note.sampleNumber = 17 /\ note.padLabel = "B1")

\* The record with midiNote 63 and bankSwitch 64 was parsed on the current
\* revision.
SampleNumberOfB1 ==
  /\ parsed # <<>>
  /\ parsed[1].error = ""
  /\ ~parsed[1].options.og
  /\ Len(ParsedNotes) = 1
  /\ ParsedNotes[1].midiNote = 63
  /\ ParsedNotes[1].bankSwitch = 64
  /\ ParsedNotes[1].padLabel = "B1"


\* The values of bankSwitch that parse knows for a revision.
KnownBankSwitches(og) == IF og THEN {0, 64} ELSE {0, 1, 64, 65}

\* The record has the midiNote and the bankSwitch of a pad of the table of
\* the revision.
IsPadOfTable(note, og) ==
  LET table == IF og THEN defaultMapOG ELSE defaultMap
  IN  \E pad \in DOMAIN table :
        table[pad].midiNote = note.midiNote /\ table[pad].bankSwitch = note.bankSwitch

\* C19: a record whose bankSwitch the revision does not know does not fail
\* the parse and gets sampleNumber 160; and 160 is not the sample number,
\* nor its label the pad label, of a record with a known bankSwitch that has
\* the midiNote and bankSwitch of a pad of the table of the revision.
SentinelOutOfRange ==
  (parsed # <<>> /\ Len(parsed[1].data) % 8 = 0) =>
    /\ parsed[1].error = ""
    /\ \A k \in 1..Len(ParsedNotes) :
         LET note == ParsedNotes[k]
             og == parsed[1].options.og
         IN  /\ note.bankSwitch \notin KnownBankSwitches(og) => note.sampleNumber = 160
             /\ (note.bankSwitch \in KnownBankSwitches(og) /\ IsPadOfTable(note, og)) =>
                  /\ note.sampleNumber # 160
                  /\ note.padLabel # PadLabel(160, parsed[1].options.padsPerBank)

\* C20: the pad label of every record is the letter 'A' +
\* floor((sampleNumber - 1) / padsPerBank) followed by the number
\* ((sampleNumber - 1) mod padsPerBank) + 1, a number from 1 to padsPerBank.
PadLabelDerivation ==
  parsed # <<>> =>
    \A k \in 1..Len(ParsedNotes) :
      LET note == ParsedNotes[k]
          padsPerBank == parsed[1].options.padsPerBank
          number == ((note.sampleNumber - 1) % padsPerBank) + 1
      IN  /\ number \in 1..padsPerBank
          /\ note.padLabel
               = FromCharCode(65 + ((note.sampleNumber - 1) \div padsPerBank))
                   \o ToString(number)


Encoded == padInfo # <<>> /\ padInfo[1].call = "encodePad"

\* The field of the call of encodePad, as given or by default.
Given(field) ==
  IF Has(padInfo[1].data, field) THEN padInfo[1].data[field] ELSE PadDefaults[field]

InvalidVolume ==
  ~(Given("volume").typeof = "number" /\ Given("volume").frac = 0
    /\ Given("volume").int \in 0..127)

InvalidChannels ==
  Given("channels") \notin {Integer(1), Integer(2), String("Mono"), String("Stereo")}

InvalidTempoMode ==
  Given("tempoMode") \notin {Integer(0), Integer(1), Integer(2), String("Off"),
                             String("Pattern"), String("User")}

Decoded == padInfo # <<>> /\ padInfo[1].call = "fromFile" /\ padInfo[1].of # <<>>

\* The bytes of PAD_DEFAULTS.BIN.
DefaultPadBytes ==
  <<0, 0, 2, 0,  0, 0, 2, 0,  0, 0, 2, 0,  0, 0, 2, 0,
    127, 0, 0, 1, 0, 1, 2, 0,  0, 0, 4, 176,  0, 0, 4, 176>>

Checked == padInfo # <<>> /\ padInfo[1].call = "checkDefault"

\* The field of the pad that was checked is there and has the value.
FieldIs(field, value) ==
  Has(padInfo[1].pad[1], field) /\ padInfo[1].pad[1][field] = value

FileParsed == padInfo # <<>> /\ padInfo[1].call = "fromFile" /\ padInfo[1].of = <<>>

\* The byte at the offset (from 0) of the i-th record of the file.
RecordByte(i, offset) == padInfo[1].file[(32 * (i - 1)) + offset + 1]

TimingPreservation ==
  Returned =>
    LET args == dataBuffer[1].args
        buffer == dataBuffer[1].result.buffer
        n == dataBuffer[1].result.noteBytes \div 8
        events == AllEvents(args.audioMIDI)
        midiPPQN == args.audioMIDI.timeDivision
    IN  \A i \in 1..Len(events) :
          LET sum == SumTicks(buffer, 1, NthNote(buffer, n, i))
              scaled == events[i].absoluteTime * args.patternPPQN
          IN  /\ (sum * midiPPQN) - scaled <= midiPPQN
              /\ scaled - (sum * midiPPQN) <= midiPPQN
              /\ args.patternPPQN = midiPPQN => sum = events[i].absoluteTime

(***************************************************************************)
(* The mapping tables and parse.                                           *)
(***************************************************************************)
\* C27: for each revision (the current table with padsPerBank 16, the
\* legacy table with padsPerBank 12 and og) and every pad P of its table, a
\* record that carries the midiNote and bankSwitch of P is parsed to the
\* pad label P.
TableAndParseAgree ==
  (parsed # <<>> /\ parsed[1].error = "") =>
    LET table == IF parsed[1].options.og THEN defaultMapOG ELSE defaultMap
    IN  \A k \in 1..Len(ParsedNotes) : \A P \in DOMAIN table :
          (/\ table[P].midiNote = ParsedNotes[k].midiNote
           /\ table[P].bankSwitch = ParsedNotes[k].bankSwitch) =>
            ParsedNotes[k].padLabel = P

(***************************************************************************)
(* Rest records in toMidi and getUsedPads.                                 *)
(***************************************************************************)
\* The record is a rest as fromMidi writes it.
IsRestNote(note) == note.midiNote = 128

\* C28: with a note map whose keys are pads of the tables, toMidi emits no
\* Note On and no Note Off for a rest record (midiNote 128): the events of
\* notes are those of the other records; and getUsedPads reports no pad
\* label that only rest records have.
RestsAreNoNotes ==
  /\ (pattern # <<>> /\ ToMidiReturned) =>
       LET noteMap == midi[1].call[1].noteMap
           notes == SelectSeq(pattern[1].this.notes,
                              LAMBDA note : ~IsRestNote(note) /\ Has(noteMap, note.padLabel)
                                              /\ noteMap[note.padLabel] # 0)
           events == TrackEvents(midi[1].doc[1])
       IN  /\ Len(NoteOns(events)) = Len(notes)
           /\ Len(NoteOnsAndOffs(events)) =
                Len(notes) + Len(SelectSeq(notes, LAMBDA note : note.length > 0))
  /\ (pattern # <<>> /\ Has(pattern[1], "usedPads")) =>
       \A i \in 1..Len(pattern[1].usedPads) :
         \E k \in 1..Len(pattern[1].this.notes) :
           /\ pattern[1].this.notes[k].padLabel = pattern[1].usedPads[i]
           /\ ~IsRestNote(pattern[1].this.notes[k])

(***************************************************************************)
(* parse on an instance that was parsed.                                   *)
(***************************************************************************)
\* C29: after an AudioPattern was constructed from a well-formed buffer (8
\* bytes for each of N records and 16 more), parse with the same options on
\* the same instance succeeds and leaves notes, bars and timeSignature as
\* they were after the first parse.
ParseIsRepeatable ==
  (pattern # <<>> /\ Has(pattern[1], "before")) =>
    /\ error = ""
    /\ pattern[1].this.notes = pattern[1].before.notes
    /\ pattern[1].this.bars = pattern[1].before.bars
    /\ pattern[1].this.timeSignature = pattern[1].before.timeSignature

====
